---- MODULE Spec2Model ----
(***************************************************************************)
(* A model of the express-serverless product catalog API: the serverless   *)
(* Express app (security headers, origin check, rate limiter, auth         *)
(* middleware, product controllers) over the Supabase data client.         *)
(*                                                                         *)
(* Node runs each handler to its next await without interleaving, so one   *)
(* action is one event-loop turn of one request: Receive runs the          *)
(* synchronous middleware chain up to the first backend call, and each     *)
(* ...Return action resumes the request when that backend call settles.    *)
(***************************************************************************)
EXTENDS Integers, Sequences, FiniteSets, TLC

(***************************************************************************)
(* Bounds of the model.                                                    *)
(***************************************************************************)
\* Request slots: requests that may be in flight at the same time.
NumReqs == 2
\* The clock (Date.now()) runs from 0 to MaxTime.
MaxTime == 3
\* Rows the products table may ever hold (ids 1..MaxProducts are generated).
MaxProducts == 2
\* The limiter instance's parameters (rateLimitByOrigin(maxRequests, windowMs)),
\* scaled down from the deployed 100 requests per 15 minutes.
maxRequests == 2
windowMs == 2

(***************************************************************************)
(* JavaScript values. A value is a tagged record, so that undefined, null, *)
(* numbers and strings can meet in one field and be compared.              *)
(***************************************************************************)
Undefined == [t |-> "undefined"]
Null == [t |-> "null"]
Str(s) == [t |-> "str", v |-> s]
Num(n) == [t |-> "num", v |-> n]

\* JavaScript truthiness: undefined, null, NaN, "" and 0 are falsy.
Truthy(x) ==
  CASE x.t = "undefined" -> FALSE
    [] x.t = "null" -> FALSE
    [] x.t = "nan" -> FALSE
    [] x.t = "str" -> x.v # ""
    [] x.t = "num" -> x.v # 0
    [] OTHER -> TRUE

\* a || b
Or(a, b) == IF Truthy(a) THEN a ELSE b

\* String.prototype.startsWith
StartsWith(s, p) == Len(s) >= Len(p) /\ SubSeq(s, 1, Len(p)) = p

\* String.prototype.substring(n): the string from (0-based) offset n.
Substring(s, n) == SubSeq(s, n + 1, Len(s))

\* String.prototype.indexOf as a 1-based position, 0 when p does not occur.
RECURSIVE IndexFrom(_, _, _)
IndexFrom(s, p, i) ==
  IF i + Len(p) - 1 > Len(s) THEN 0
  ELSE IF SubSeq(s, i, i + Len(p) - 1) = p THEN i
  ELSE IndexFrom(s, p, i + 1)

IndexOf(s, p) == IndexFrom(s, p, 1)

(***************************************************************************)
(* new URL(s): the parse succeeds when s has a scheme followed by "://";   *)
(* .host is what follows up to the next "/". (Enough of the WHATWG parser  *)
(* for the Referer values the model sends.)                                *)
(***************************************************************************)
URLParses(s) == IndexOf(s, "://") > 1

URLHost(s) ==
  LET rest == Substring(s, IndexOf(s, "://") + 2)
      slash == IndexOf(rest, "/")
  IN IF slash = 0 THEN rest ELSE SubSeq(rest, 1, slash - 1)

(***************************************************************************)
(* Numbers: NaN, parseInt(s, 10), ToNumber and the comparison `x <= 0`.    *)
(***************************************************************************)
NaN == [t |-> "nan"]

Digits == "0123456789"

IsDigit(ch) == IndexOf(Digits, ch) > 0

DigitVal(ch) == IndexOf(Digits, ch) - 1

\* The value of the longest run of digits at the start of s, given the value
\* acc of the digits already read.
RECURSIVE DigitsPrefix(_, _)
DigitsPrefix(s, acc) ==
  IF Len(s) = 0 \/ ~IsDigit(SubSeq(s, 1, 1)) THEN acc
  ELSE DigitsPrefix(Substring(s, 1), acc * 10 + DigitVal(SubSeq(s, 1, 1)))

\* parseInt(s, 10): an optional sign, then the leading digits; what follows
\* them is ignored, and NaN when there is no leading digit.
parseInt(s) ==
  LET neg == StartsWith(s, "-")
      body == IF neg \/ StartsWith(s, "+") THEN Substring(s, 1) ELSE s
  IN IF Len(body) = 0 \/ ~IsDigit(SubSeq(body, 1, 1)) THEN NaN
     ELSE Num((IF neg THEN -1 ELSE 1) * DigitsPrefix(body, 0))

RECURSIVE AllDigits(_)
AllDigits(s) ==
  Len(s) = 0 \/ (IsDigit(SubSeq(s, 1, 1)) /\ AllDigits(Substring(s, 1)))

\* ToNumber: undefined is NaN, null is 0, "" is 0, a string of digits (with an
\* optional sign) is its value and any other string is NaN.
ToNumber(x) ==
  CASE x.t = "num" -> x
    [] x.t = "null" -> Num(0)
    [] x.t = "str" ->
         LET neg == StartsWith(x.v, "-")
             body == IF neg THEN Substring(x.v, 1) ELSE x.v
         IN IF x.v = "" THEN Num(0)
            ELSE IF Len(body) > 0 /\ AllDigits(body)
              THEN Num((IF neg THEN -1 ELSE 1) * DigitsPrefix(body, 0))
              ELSE NaN
    [] OTHER -> NaN

\* isNaN(x)
isNaN(x) == ToNumber(x).t = "nan"

\* x <= 0: false whenever x converts to NaN.
LeqZero(x) == LET n == ToNumber(x) IN n.t = "num" /\ n.v <= 0

(***************************************************************************)
(* The request as the handlers see it. The inputs (method, path, headers,  *)
(* ip, params.id, body) are fixed when the request arrives. The rest is    *)
(* what the handlers did to it: req.user and req.accessToken, the handlers *)
(* entered (trace), those that called next() (nexts), the responses sent   *)
(* (sent), the data-client operations invoked (calls) and what they        *)
(* returned (returns), the CORS header assigned (acao), and the backend    *)
(* call the request is waiting on (pc).                                    *)
(***************************************************************************)
NoBody ==
  [title |-> Undefined, author |-> Undefined, price |-> Undefined,
   id |-> Undefined]

Idle ==
  [pc |-> "idle", method |-> "", path |-> "", id |-> "",
   origin |-> Undefined, referer |-> Undefined, host |-> Undefined,
   ip |-> Undefined, authorization |-> Undefined, body |-> NoBody,
   user |-> Undefined, accessToken |-> Undefined, acao |-> Undefined,
   go |-> FALSE, thrown |-> FALSE,
   trace |-> << >>, nexts |-> << >>, sent |-> << >>, calls |-> << >>,
   returns |-> << >>]

\* A handler is entered; it has not called next() yet.
Enter(c, name) == [c EXCEPT !.trace = Append(@, name), !.go = FALSE]

\* next()
CallNext(c, name) == [c EXCEPT !.nexts = Append(@, name), !.go = TRUE]

\* res.status(status).json(...) / res.sendStatus(status)
Send(c, name, status) ==
  [c EXCEPT !.sent = Append(@, [by |-> name, status |-> status]),
            !.pc = "done"]

\* A data-client operation is invoked with the given token, and the request
\* waits for it.
Invoke(c, op, token) ==
  [c EXCEPT !.calls = Append(@, [op |-> op, token |-> token]), !.pc = op]

\* The data-client operation the request waits for returns {value, error}, where
\* value is the user or data field.
Settle(c, value, error) ==
  [c EXCEPT !.returns = Append(@, [op |-> c.pc, value |-> value, error |-> error])]

\* Express runs the next handler only when the previous one called next().
Then(c, F(_)) == IF c.go /\ ~c.thrown THEN F(c) ELSE c

\* The status the client got (0 while there is no response).
Status(c) == IF c.sent = << >> THEN 0 ELSE c.sent[1].status

Entered(c, name) == \E i \in 1..Len(c.trace) : c.trace[i] = name

CalledNext(c, name) == \E i \in 1..Len(c.nexts) : c.nexts[i] = name

Invoked(c, op) == \E i \in 1..Len(c.calls) : c.calls[i].op = op

(***************************************************************************)
(* securityHeaders and apiSecurityHeaders only set response headers.       *)
(***************************************************************************)
securityHeaders(c) == CallNext(Enter(c, "securityHeaders"), "securityHeaders")

apiSecurityHeaders(c) ==
  CallNext(Enter(c, "apiSecurityHeaders"), "apiSecurityHeaders")

(***************************************************************************)
(* enhancedCors.                                                           *)
(***************************************************************************)
\* getAllowedOrigins(), with VERCEL_URL and CUSTOM_DOMAIN unset.
getAllowedOrigins == {"http://localhost:3000", "http://127.0.0.1:3000"}

\* isFromSameDomain(referer, req): threw tells that new URL(referer) threw.
isFromSameDomain(referer, requestHost) ==
  IF ~Truthy(referer) THEN [threw |-> FALSE, value |-> FALSE]
  ELSE IF ~URLParses(referer.v) THEN [threw |-> TRUE, value |-> FALSE]
  ELSE [threw |-> FALSE, value |-> Str(URLHost(referer.v)) = requestHost]

\* A faulty CorsAccepted: a preflight request is passed on like any other.
CorsAcceptedNoPreflight(c, allowOrigin) ==
  CallNext([c EXCEPT !.acao = allowOrigin], "enhancedCors")

\* The headers set after the origin was accepted, then the preflight answer.
CorsAccepted(c, allowOrigin) ==
  LET c1 == [c EXCEPT !.acao = allowOrigin]
  IN IF c.method = "OPTIONS" THEN Send(c1, "enhancedCors", 200)
     ELSE CallNext(c1, "enhancedCors")

enhancedCors(c0) ==
  LET c == Enter(c0, "enhancedCors")
      same == isFromSameDomain(c.referer, c.host)
  IN IF Truthy(c.origin) /\ c.origin.v \in getAllowedOrigins
       THEN CorsAccepted(c, c.origin)
     ELSE IF ~Truthy(c.origin) /\ same.threw
       THEN [c EXCEPT !.thrown = TRUE]
     ELSE IF ~Truthy(c.origin) /\ same.value
       THEN CorsAccepted(c, Str("*"))
     ELSE Send(c, "enhancedCors", 403)

(***************************************************************************)
(* rateLimitByOrigin(maxRequests, windowMs): counts is the requestCounts   *)
(* map, a function from the identifiers seen to {count, resetTime}.        *)
(***************************************************************************)
Identifier(c) == Or(c.ip, Or(c.origin, Str("unknown"))).v

MapSet(counts, k, rec) ==
  [i \in DOMAIN counts \cup {k} |-> IF i = k THEN rec ELSE counts[i]]

\* A faulty LimitVerdict: the count is compared with > instead of >=.
LimitVerdictOffByOne(counts, identifier, t) ==
  IF identifier \notin DOMAIN counts \/ t > counts[identifier].resetTime
    THEN "fresh"
  ELSE IF counts[identifier].count > maxRequests THEN "reject"
  ELSE "count"

\* The verdict on one request: "fresh" (a new window), "count" or "reject".
LimitVerdict(counts, identifier, t) ==
  IF identifier \notin DOMAIN counts \/ t > counts[identifier].resetTime
    THEN "fresh"
  ELSE IF counts[identifier].count >= maxRequests THEN "reject"
  ELSE "count"

\* A faulty rateLimitCounts: a request inside the window is not counted.
rateLimitCountsUncounted(counts, identifier, t) ==
  CASE LimitVerdict(counts, identifier, t) = "fresh" ->
         MapSet(counts, identifier, [count |-> 1, resetTime |-> t + windowMs])
    [] OTHER -> counts

\* A faulty rateLimitCounts: a rejected request is counted as well.
rateLimitCountsCountingRejected(counts, identifier, t) ==
  CASE LimitVerdict(counts, identifier, t) = "fresh" ->
         MapSet(counts, identifier, [count |-> 1, resetTime |-> t + windowMs])
    [] OTHER -> [counts EXCEPT ![identifier].count = @ + 1]

\* A faulty rateLimitCounts: a counted request moves the reset time.
rateLimitCountsExtending(counts, identifier, t) ==
  CASE LimitVerdict(counts, identifier, t) = "fresh" ->
         MapSet(counts, identifier, [count |-> 1, resetTime |-> t + windowMs])
    [] LimitVerdict(counts, identifier, t) = "count" ->
         [counts EXCEPT ![identifier] =
            [count |-> @.count + 1, resetTime |-> t + windowMs]]
    [] OTHER -> counts

rateLimitCounts(counts, identifier, t) ==
  CASE LimitVerdict(counts, identifier, t) = "fresh" ->
         MapSet(counts, identifier, [count |-> 1, resetTime |-> t + windowMs])
    [] LimitVerdict(counts, identifier, t) = "count" ->
         [counts EXCEPT ![identifier].count = @ + 1]
    [] OTHER -> counts

\* A faulty rateLimitByOrigin: next() is called after the 429 as well.
rateLimitByOriginFallThrough(c0, counts, t) ==
  LET c == Enter(c0, "rateLimitByOrigin")
  IN IF LimitVerdict(counts, Identifier(c), t) = "reject"
       THEN CallNext(Send(c, "rateLimitByOrigin", 429), "rateLimitByOrigin")
       ELSE CallNext(c, "rateLimitByOrigin")

rateLimitByOrigin(c0, counts, t) ==
  LET c == Enter(c0, "rateLimitByOrigin")
  IN IF LimitVerdict(counts, Identifier(c), t) = "reject"
       THEN Send(c, "rateLimitByOrigin", 429)
       ELSE CallNext(c, "rateLimitByOrigin")

(***************************************************************************)
(* The hosted backend (Supabase): the users its tokens resolve to and the  *)
(* products table. Every backend call settles with one of the outcomes     *)
(* "ok" (the backend answered), "error" (it answered with an error) or     *)
(* "throw" (the client library threw); auth.getUser() may also answer      *)
(* "nouser" (neither a user nor an error).                                 *)
(***************************************************************************)
Err == [t |-> "error"]

\* The error .single() answers with when the query matched no row.
ErrNoRows == [t |-> "error", code |-> "PGRST116"]

User(id, userRole, appRole) ==
  [t |-> "user", id |-> id, user_metadata |-> [role |-> userRole],
   app_metadata |-> [role |-> appRole]]

\* The user a token belongs to; null for a token the backend does not know.
TokenUser(token) ==
  CASE token = "tok-admin" -> User("u1", Str("admin"), Undefined)
    [] token = "tok-user" -> User("u2", Str("user"), Str("admin"))
    [] token = "tok-app" -> User("u3", Str(""), Str("admin"))
    [] token = "tok-norole" -> User("u4", Undefined, Undefined)
    [] OTHER -> Null

DbOutcomes == {"ok", "error", "throw"}

VerifyOutcomes == DbOutcomes \cup {"nouser"}

\* client.auth.getUser() of a client built for the token.
AuthGetUser(token, outcome) ==
  IF outcome = "ok" /\ Truthy(TokenUser(token.v))
    THEN [user |-> TokenUser(token.v), error |-> Null]
  ELSE IF outcome = "nouser" THEN [user |-> Null, error |-> Null]
  ELSE [user |-> Null, error |-> Err]

\* .from('products').insert([productData]): the table gives the row the id; an
\* id that a row already has is a duplicate key.
DbInsert(rows, id, row) ==
  IF id \in DOMAIN rows THEN [rows |-> rows, error |-> Err]
  ELSE [rows |-> [i \in DOMAIN rows \cup {id} |-> IF i = id THEN row ELSE rows[i]],
        error |-> Null]

\* .from('products').update(productData).eq('id', id): the row takes the fields
\* productData carries, an id among them; no row is no error, an id that
\* another row has is a duplicate key.
DbUpdate(rows, id, productData) ==
  IF id \notin DOMAIN rows \/ productData.id.t # "num"
    THEN [rows |-> rows, error |-> Null]
  ELSE IF productData.id.v # id /\ productData.id.v \in DOMAIN rows
    THEN [rows |-> rows, error |-> Err]
  ELSE [rows |-> [i \in (DOMAIN rows \ {id}) \cup {productData.id.v} |->
                    IF i = productData.id.v
                      THEN [rows[id] EXCEPT !.id = productData.id.v]
                      ELSE rows[i]],
        error |-> Null]

\* .from('products').select('*').eq('id', id).single(): an error when there is
\* no such row.
DbSingle(rows, id) ==
  IF id \in DOMAIN rows THEN [data |-> rows[id], error |-> Null]
  ELSE [data |-> Null, error |-> ErrNoRows]

(***************************************************************************)
(* supabaseService: every operation catches what the client throws and     *)
(* returns it in the error field.                                          *)
(***************************************************************************)
verifyToken(accessToken, outcome) ==
  IF outcome = "throw" THEN [user |-> Null, error |-> Err]
  ELSE AuthGetUser(accessToken, outcome)

serviceGetProductById(rows, id, outcome) ==
  IF outcome = "ok" THEN DbSingle(rows, id) ELSE [data |-> Null, error |-> Err]

\* getProducts, createProduct, updateProduct and deleteProduct: the error field
\* of the result.
serviceError(outcome) == IF outcome = "ok" THEN Null ELSE Err

(***************************************************************************)
(* Auth middleware.                                                        *)
(***************************************************************************)
\* A faulty HasBearer: any non-empty Authorization header is taken for a bearer
\* token.
HasBearerAnyScheme(authHeader) == Truthy(authHeader)

HasBearer(authHeader) == Truthy(authHeader) /\ StartsWith(authHeader.v, "Bearer ")

\* The accessToken local of the middleware waiting on verifyToken.
PendingToken(c) == c.calls[Len(c.calls)].token

\* requireAuth up to `await supabaseService.verifyToken(accessToken)`.
requireAuth(c0) ==
  LET c == Enter(c0, "requireAuth")
  IN IF ~HasBearer(c.authorization) THEN Send(c, "requireAuth", 401)
     ELSE Invoke(c, "verifyToken", Str(Substring(c.authorization.v, 7)))

\* A faulty requireAuthVerified: a failed verification is tried once more.
requireAuthVerifiedRetry(c, result) ==
  IF Truthy(result.error) \/ ~Truthy(result.user)
    THEN IF Len(c.calls) = 1 THEN Invoke(c, "verifyToken", PendingToken(c))
         ELSE Send(c, "requireAuth", 401)
    ELSE CallNext([c EXCEPT !.user = result.user,
                            !.accessToken = PendingToken(c),
                            !.pc = "run"], "requireAuth")

\* requireAuth from the await on.
requireAuthVerified(c, result) ==
  IF Truthy(result.error) \/ ~Truthy(result.user)
    THEN Send(c, "requireAuth", 401)
    ELSE CallNext([c EXCEPT !.user = result.user,
                            !.accessToken = PendingToken(c),
                            !.pc = "run"], "requireAuth")

\* A faulty ResolveRole: app_metadata.role is read first.
ResolveRoleAppFirst(user) == Or(user.app_metadata.role, user.user_metadata.role)

\* userRole = req.user.user_metadata?.role || req.user.app_metadata?.role
ResolveRole(user) == Or(user.user_metadata.role, user.app_metadata.role)

\* A faulty requireAdmin: any authenticated user passes.
requireAdminAnyUser(c0) ==
  LET c == Enter(c0, "requireAdmin")
  IN IF ~Truthy(c.user) THEN Send(c, "requireAdmin", 401)
     ELSE CallNext(c, "requireAdmin")

requireAdmin(c0) ==
  LET c == Enter(c0, "requireAdmin")
  IN IF ~Truthy(c.user) THEN Send(c, "requireAdmin", 401)
     ELSE IF ResolveRole(c.user) # Str("admin") THEN Send(c, "requireAdmin", 403)
     ELSE CallNext(c, "requireAdmin")

\* optionalAuth up to the await, or through when there is no bearer token.
optionalAuth(c0) ==
  LET c == Enter(c0, "optionalAuth")
  IN IF HasBearer(c.authorization)
       THEN Invoke(c, "verifyToken", Str(Substring(c.authorization.v, 7)))
       ELSE CallNext(c, "optionalAuth")

\* A faulty optionalAuthVerified: a failed verification is answered 401.
optionalAuthRejecting(c, result) ==
  IF ~Truthy(result.error) /\ Truthy(result.user)
    THEN CallNext([c EXCEPT !.user = result.user,
                            !.accessToken = PendingToken(c),
                            !.pc = "run"], "optionalAuth")
    ELSE Send(c, "optionalAuth", 401)

\* A faulty optionalAuthVerified: the token is attached whatever the outcome of
\* the verification.
optionalAuthKeepingToken(c, result) ==
  IF ~Truthy(result.error) /\ Truthy(result.user)
    THEN CallNext([c EXCEPT !.user = result.user,
                            !.accessToken = PendingToken(c),
                            !.pc = "run"], "optionalAuth")
    ELSE CallNext([c EXCEPT !.accessToken = PendingToken(c), !.pc = "run"],
                  "optionalAuth")

\* optionalAuth from the await on.
optionalAuthVerified(c, result) ==
  IF ~Truthy(result.error) /\ Truthy(result.user)
    THEN CallNext([c EXCEPT !.user = result.user,
                            !.accessToken = PendingToken(c),
                            !.pc = "run"], "optionalAuth")
    ELSE CallNext([c EXCEPT !.pc = "run"], "optionalAuth")

(***************************************************************************)
(* productController: each handler up to its first await. The last handler *)
(* of a route calls no next(); it ends the turn waiting on the data client *)
(* or with a response.                                                     *)
(***************************************************************************)
\* isNaN(id) || id <= 0, for id = parseInt(req.params.id, 10)
InvalidId(idParam) == isNaN(parseInt(idParam)) \/ LeqZero(parseInt(idParam))

\* The row id a valid id parameter names.
IdOf(c) == parseInt(c.id).v

getProducts(c0) ==
  LET c == Enter(c0, "getProducts")
  IN Invoke(c, "getProducts", c.accessToken)

getProductById(c0) ==
  LET c == Enter(c0, "getProductById")
  IN IF InvalidId(c.id) THEN Send(c, "getProductById", 400)
     ELSE Invoke(c, "getProductById", c.accessToken)

\* !productData.title || !productData.author || !productData.price
MissingRequired(body) ==
  ~Truthy(body.title) \/ ~Truthy(body.author) \/ ~Truthy(body.price)

createProduct(c0) ==
  LET c == Enter(c0, "createProduct")
  IN IF MissingRequired(c.body) THEN Send(c, "createProduct", 400)
     ELSE IF LeqZero(c.body.price) THEN Send(c, "createProduct", 400)
     ELSE Invoke(c, "createProduct", c.accessToken)

\* productData.price !== undefined && productData.price <= 0
InvalidUpdatePrice(body) == body.price # Undefined /\ LeqZero(body.price)

updateProduct(c0) ==
  LET c == Enter(c0, "updateProduct")
  IN IF InvalidId(c.id) THEN Send(c, "updateProduct", 400)
     ELSE IF InvalidUpdatePrice(c.body) THEN Send(c, "updateProduct", 400)
     ELSE Invoke(c, "getProductById", c.accessToken)

deleteProduct(c0) ==
  LET c == Enter(c0, "deleteProduct")
  IN IF InvalidId(c.id) THEN Send(c, "deleteProduct", 400)
     ELSE Invoke(c, "getProductById", c.accessToken)

\* getProductById from `await supabaseService.getProductById` on.
getProductByIdFetched(c, result) ==
  IF Truthy(result.error) THEN Send(c, "getProductById", 500)
  ELSE IF ~Truthy(result.data) THEN Send(c, "getProductById", 404)
  ELSE Send(c, "getProductById", 200)

\* A faulty ProductMissing: the existence lookup is ignored.
ProductMissingIgnored(result) == FALSE

\* updateProduct and deleteProduct from the existence lookup on: only the data
\* field of the lookup is read.
ProductMissing(result) == ~Truthy(result.data)

updateProductLooked(c, result) ==
  IF ProductMissing(result) THEN Send(c, "updateProduct", 404)
  ELSE Invoke(c, "updateProduct", c.accessToken)

deleteProductLooked(c, result) ==
  IF ProductMissing(result) THEN Send(c, "deleteProduct", 404)
  ELSE Invoke(c, "deleteProduct", c.accessToken)

\* A controller from its last data-client call on: 500 on an error, else the
\* route's success status.
Answered(c, name, error, success) ==
  IF Truthy(error) THEN Send(c, name, 500) ELSE Send(c, name, success)

(***************************************************************************)
(* Routing (routes/index.ts, routes/products.routes.ts) and the app's      *)
(* handler order (the serverless entry point).                             *)
(***************************************************************************)
Collection == "/api/products"
Item == "/api/products/:id"

IsWrite(c) ==
  \/ c.method = "POST" /\ c.path = Collection
  \/ c.method \in {"PUT", "DELETE"} /\ c.path = Item

IsRead(c) == c.method = "GET" /\ c.path \in {Collection, Item}

\* The controller the route ends in.
ProductController(c) ==
  CASE c.method = "GET" /\ c.path = Collection -> getProducts(c)
    [] c.method = "GET" /\ c.path = Item -> getProductById(c)
    [] c.method = "POST" -> createProduct(c)
    [] c.method = "PUT" -> updateProduct(c)
    [] OTHER -> deleteProduct(c)

\* Unmatched routes end in the catch-all 404 handler.
notFoundHandler(c) == Send(Enter(c, "notFoundHandler"), "notFoundHandler", 404)

\* The final error-handling middleware answers 500 for what a handler threw.
errorHandler(c) ==
  IF c.thrown THEN Send(Enter(c, "errorHandler"), "errorHandler", 500) ELSE c

AuthUserPath == "/api/auth/user"

\* GET /api/auth/user: the handler reads req.user.
authUser(c0) ==
  LET c == Enter(c0, "authUser")
  IN IF ~Truthy(c.user) THEN Send(c, "authUser", 401)
     ELSE Send(c, "authUser", 200)

\* The products router: the route's auth middleware, which either answers or
\* waits on verifyToken, or (optionalAuth without a bearer token) goes on to the
\* controller in the same turn.
productRoutes(c) ==
  IF IsWrite(c) THEN requireAuth(c)
  ELSE IF IsRead(c) THEN Then(optionalAuth(c), ProductController)
  ELSE notFoundHandler(c)

\* The routers mounted behind the rate limiter: /auth, then /products.
apiRoutes(c) ==
  IF c.method = "GET" /\ c.path = AuthUserPath THEN authUser(c)
  ELSE productRoutes(c)

\* The handlers ahead of the rate limiter.
AppHead(c) == Then(Then(securityHeaders(c), enhancedCors), apiSecurityHeaders)

\* The turn that resumes a request when verifyToken settles.
AfterVerify(c, result) ==
  IF c.trace[Len(c.trace)] = "requireAuth"
    THEN Then(Then(requireAuthVerified(c, result), requireAdmin), ProductController)
    ELSE Then(optionalAuthVerified(c, result), ProductController)

(***************************************************************************)
(* The requests the clients send. Each behaviour carries one class of      *)
(* traffic, which varies the inputs of one part of the chain over all its  *)
(* cases and keeps the others at values that reach that part.              *)
(***************************************************************************)
Traffics == {"origin", "limiter", "auth", "catalog", "race"}

GoodOrigin == Str("http://localhost:3000")
GoodHost == Str("localhost:3000")
GoodReferer == Str("http://localhost:3000/index.html")
ClientIp == Str("10.0.0.1")
AdminBearer == Str("Bearer tok-admin")

WellFormed ==
  [title |-> Str("T"), author |-> Str("A"), price |-> Num(10), id |-> Undefined]

Request(method, path, id, origin, referer, host, ip, authorization, body) ==
  [method |-> method, path |-> path, id |-> id, origin |-> origin,
   referer |-> referer, host |-> host, ip |-> ip,
   authorization |-> authorization, body |-> body]

\* A request from the bundled frontend, as the client at ClientIp sends it.
FromFrontend(method, path, id, authorization, body) ==
  Request(method, path, id, GoodOrigin, GoodReferer, GoodHost, ClientIp,
          authorization, body)

Origins ==
  {Undefined, Str(""), GoodOrigin, Str("http://localhost:3000/"),
   Str("https://evil.test")}

Referers ==
  {Undefined, Str(""), GoodReferer, Str("https://evil.test/index.html"),
   Str("/index.html")}

Hosts == {GoodHost, Undefined}

OriginTraffic ==
  {Request(m[1], Collection, "", o, rf, h, ClientIp, m[2], m[3]) :
     m \in {<<"GET", Undefined, NoBody>>, <<"OPTIONS", Undefined, NoBody>>,
            <<"POST", AdminBearer, WellFormed>>},
     o \in Origins, rf \in Referers, h \in Hosts}

\* req.ip || req.get('Origin') || 'unknown' takes each of its three forms.
LimiterTraffic ==
  {Request("GET", Collection, "", o, GoodReferer, GoodHost, ip, Undefined, NoBody) :
     o \in {GoodOrigin, Undefined}, ip \in {ClientIp, Undefined}}

Authorizations ==
  {Undefined, Str(""), Str("Basic dXNlcg=="), Str("bearer tok-admin"),
   Str("Bearer "), AdminBearer, Str("Bearer tok-user"), Str("Bearer tok-app"),
   Str("Bearer tok-norole"), Str("Bearer tok-expired")}

Routes ==
  {<<"GET", Collection, "">>, <<"GET", Item, "1">>, <<"POST", Collection, "">>,
   <<"PUT", Item, "1">>, <<"DELETE", Item, "1">>, <<"GET", AuthUserPath, "">>}

AuthTraffic ==
  {FromFrontend(rt[1], rt[2], rt[3], a,
                IF rt[1] \in {"POST", "PUT"} THEN WellFormed ELSE NoBody) :
     rt \in Routes, a \in Authorizations}

IdParams == {"1", "2", "0", "-3", "abc", "2nd"}

Titles == {Str("T"), Str(""), Undefined}

Prices ==
  {Undefined, Null, Num(0), Num(-5), Num(10), Str("abc"), Str("5"), Str("-5")}

CreateBodies ==
  {[WellFormed EXCEPT !.title = x] : x \in Titles}
    \cup {[WellFormed EXCEPT !.author = x] : x \in Titles}
    \cup {[WellFormed EXCEPT !.price = x] : x \in Prices}

\* A PUT body carries a price, or an id field.
UpdateBodies ==
  {[NoBody EXCEPT !.price = x] : x \in Prices}
    \cup {[NoBody EXCEPT !.id = Num(j)] : j \in 1..MaxProducts}

CatalogTraffic ==
  {FromFrontend("GET", Item, i, Undefined, NoBody) : i \in IdParams}
    \cup {FromFrontend("POST", Collection, "", AdminBearer, b) : b \in CreateBodies}
    \cup {FromFrontend("PUT", Item, i, AdminBearer, b) :
            i \in IdParams, b \in UpdateBodies}
    \cup {FromFrontend("DELETE", Item, i, AdminBearer, NoBody) : i \in IdParams}

\* Admin writes on one row, for requests in flight at the same time.
RaceTraffic ==
  {FromFrontend("POST", Collection, "", AdminBearer, WellFormed),
   FromFrontend("PUT", Item, "1", AdminBearer, WellFormed),
   FromFrontend("DELETE", Item, "1", AdminBearer, NoBody)}

Arrivals(tr) ==
  CASE tr = "origin" -> OriginTraffic
    [] tr = "limiter" -> LimiterTraffic
    [] tr = "auth" -> AuthTraffic
    [] tr = "catalog" -> CatalogTraffic
    [] OTHER -> RaceTraffic

\* The request slots a class of traffic uses.
Slots(tr) == IF tr = "race" THEN 1..NumReqs ELSE {1}

(***************************************************************************)
(* State.                                                                  *)
(***************************************************************************)
VARIABLES
  traffic,        \* the class of traffic of this behaviour
  reqs,           \* slot -> the request in it
  requestCounts,  \* the limiter's Map: identifier -> {count, resetTime}
  now,            \* Date.now()
  products,       \* the products table: id -> row
  nextId,         \* the id the table gives the next inserted row
  probe,          \* a request handed to one middleware alone (SpecAdmin)
  svc,            \* the data-client module: its clients and the calls in flight
  page,           \* the browser's SupabaseService and the callers of initSupabase
  calc            \* the input and the result of a sanitizer run on its own

vars == <<traffic, reqs, requestCounts, now, products, nextId, probe, svc, page,
          calc>>

\* The value of a part of the state that a specification leaves alone.
Unused == [t |-> "unused"]

\* A row as the table creates it; born keeps the id it was created with.
Row(id) == [t |-> "row", id |-> id, born |-> id]

EmptyMap == [i \in {} |-> 0]

\* The server as it starts, over a table that holds one row.
Started ==
  /\ reqs = [r \in 1..NumReqs |-> Idle]
  /\ requestCounts = EmptyMap
  /\ now = 0
  /\ products = [i \in {1} |-> Row(1)]
  /\ nextId = 2

Init ==
  /\ traffic \in Traffics
  /\ Started
  /\ probe = Idle
  /\ svc = Unused /\ page = Unused /\ calc = Unused

\* The request as it enters the app.
Arrived(a) ==
  [Idle EXCEPT !.pc = "run", !.go = TRUE, !.method = a.method, !.path = a.path,
               !.id = a.id, !.origin = a.origin, !.referer = a.referer,
               !.host = a.host, !.ip = a.ip, !.authorization = a.authorization,
               !.body = a.body]

\* The first turn of a request: the app's handlers in order, down to the first
\* response or the first backend call.
FirstTurn(c, counts, t) ==
  LET head == AppHead(c)
      limited == Then(head, LAMBDA x : rateLimitByOrigin(x, counts, t))
  IN errorHandler(Then(limited, apiRoutes))

\* Whether the first turn of the request reaches the rate limiter.
ReachesLimiter(c) == LET head == AppHead(c) IN head.go /\ ~head.thrown

Receive(r) ==
  /\ reqs[r].pc = "idle"
  /\ \E a \in Arrivals(traffic) :
       LET c == Arrived(a)
       IN /\ reqs' = [reqs EXCEPT ![r] = FirstTurn(c, requestCounts, now)]
          /\ requestCounts' =
               IF ReachesLimiter(c)
                 THEN rateLimitCounts(requestCounts, Identifier(c), now)
                 ELSE requestCounts
  /\ UNCHANGED <<probe, svc, page, calc, traffic, now, products, nextId>>

\* The handler the request is in.
Handler(c) == c.trace[Len(c.trace)]

Waiting(r, op, handler) == reqs[r].pc = op /\ Handler(reqs[r]) = handler

\* verifyToken settles: the auth middleware goes on, and on success the rest of
\* the route runs down to the controller's first await.
VerifyReturn(r) ==
  /\ reqs[r].pc = "verifyToken"
  /\ \E outcome \in VerifyOutcomes :
       reqs' = [reqs EXCEPT ![r] =
                  LET result == verifyToken(PendingToken(@), outcome)
                  IN AfterVerify(Settle(@, result.user, result.error), result)]
  /\ UNCHANGED <<probe, svc, page, calc, traffic, requestCounts, now, products, nextId>>

\* GET /api/products: the list query settles.
GetProductsReturn(r) ==
  /\ Waiting(r, "getProducts", "getProducts")
  /\ \E outcome \in DbOutcomes :
       reqs' = [reqs EXCEPT ![r] =
                  Answered(Settle(@, Null, serviceError(outcome)), "getProducts",
                           serviceError(outcome), 200)]
  /\ UNCHANGED <<probe, svc, page, calc, traffic, requestCounts, now, products, nextId>>

\* GET /api/products/:id: the row query settles.
GetProductByIdReturn(r) ==
  /\ Waiting(r, "getProductById", "getProductById")
  /\ \E outcome \in DbOutcomes :
       reqs' = [reqs EXCEPT ![r] =
                  LET result == serviceGetProductById(products, IdOf(@), outcome)
                  IN getProductByIdFetched(Settle(@, result.data, result.error),
                                           result)]
  /\ UNCHANGED <<probe, svc, page, calc, traffic, requestCounts, now, products, nextId>>

\* PUT /api/products/:id: the existence lookup settles.
UpdateLookupReturn(r) ==
  /\ Waiting(r, "getProductById", "updateProduct")
  /\ \E outcome \in DbOutcomes :
       reqs' = [reqs EXCEPT ![r] =
                  LET result == serviceGetProductById(products, IdOf(@), outcome)
                  IN updateProductLooked(Settle(@, result.data, result.error),
                                         result)]
  /\ UNCHANGED <<probe, svc, page, calc, traffic, requestCounts, now, products, nextId>>

\* DELETE /api/products/:id: the existence lookup settles.
DeleteLookupReturn(r) ==
  /\ Waiting(r, "getProductById", "deleteProduct")
  /\ \E outcome \in DbOutcomes :
       reqs' = [reqs EXCEPT ![r] =
                  LET result == serviceGetProductById(products, IdOf(@), outcome)
                  IN deleteProductLooked(Settle(@, result.data, result.error),
                                         result)]
  /\ UNCHANGED <<probe, svc, page, calc, traffic, requestCounts, now, products, nextId>>

\* POST /api/products: the insert settles. The table gives the row the next id
\* of its sequence, which a failed insert uses up as well.
CreateReturn(r) ==
  /\ Waiting(r, "createProduct", "createProduct")
  /\ \E outcome \in DbOutcomes :
       LET reached == outcome = "ok"
           result == IF reached THEN DbInsert(products, nextId, Row(nextId))
                     ELSE [rows |-> products, error |-> Err]
       IN /\ reached => nextId <= MaxProducts
          /\ reqs' = [reqs EXCEPT ![r] =
                        Answered(Settle(@, Null, result.error), "createProduct",
                                 result.error, 201)]
          /\ products' = result.rows
          /\ nextId' = IF reached THEN nextId + 1 ELSE nextId
  /\ UNCHANGED <<probe, svc, page, calc, traffic, requestCounts, now>>

\* PUT /api/products/:id: the update settles.
UpdateReturn(r) ==
  /\ Waiting(r, "updateProduct", "updateProduct")
  /\ \E outcome \in DbOutcomes :
       LET result == IF outcome = "ok"
                       THEN DbUpdate(products, IdOf(reqs[r]), reqs[r].body)
                       ELSE [rows |-> products, error |-> Err]
       IN /\ reqs' = [reqs EXCEPT ![r] =
                        Answered(Settle(@, Null, result.error), "updateProduct",
                                 result.error, 200)]
          /\ products' = result.rows
  /\ UNCHANGED <<probe, svc, page, calc, traffic, requestCounts, now, nextId>>

\* DELETE /api/products/:id: the delete settles.
DeleteReturn(r) ==
  /\ Waiting(r, "deleteProduct", "deleteProduct")
  /\ \E outcome \in DbOutcomes :
       /\ reqs' = [reqs EXCEPT ![r] =
                     Answered(Settle(@, Null, serviceError(outcome)),
                              "deleteProduct", serviceError(outcome), 200)]
       /\ products' =
            IF outcome = "ok"
              THEN [i \in DOMAIN products \ {IdOf(reqs[r])} |-> products[i]]
              ELSE products
  /\ UNCHANGED <<probe, svc, page, calc, traffic, requestCounts, now, nextId>>

\* The response has gone out: the slot is free for the next request.
Finish(r) ==
  /\ reqs[r].pc = "done"
  /\ reqs' = [reqs EXCEPT ![r] = Idle]
  /\ UNCHANGED <<probe, svc, page, calc, traffic, requestCounts, now, products, nextId>>

\* Time passes. The requests in flight at the same time are a burst inside one
\* window of the limiter: the clock stands still for them.
Tick ==
  /\ traffic # "race"
  /\ now < MaxTime
  /\ now' = now + 1
  /\ UNCHANGED <<probe, svc, page, calc, traffic, reqs, requestCounts, products, nextId>>

Next ==
  \/ \E r \in Slots(traffic) : Receive(r)
  \/ \E r \in Slots(traffic) : VerifyReturn(r)
  \/ \E r \in Slots(traffic) : GetProductsReturn(r)
  \/ \E r \in Slots(traffic) : GetProductByIdReturn(r)
  \/ \E r \in Slots(traffic) : UpdateLookupReturn(r)
  \/ \E r \in Slots(traffic) : DeleteLookupReturn(r)
  \/ \E r \in Slots(traffic) : CreateReturn(r)
  \/ \E r \in Slots(traffic) : UpdateReturn(r)
  \/ \E r \in Slots(traffic) : DeleteReturn(r)
  \/ \E r \in Slots(traffic) : Finish(r)
  \/ Tick

Spec == Init /\ [][Next]_vars

(***************************************************************************)
(* requireAdmin on its own: the middleware is handed a request with any    *)
(* req.user, also none (which the routes, where requireAuth runs first,    *)
(* never hand it).                                                         *)
(***************************************************************************)
Roles == {Undefined, Null, Str(""), Str("admin"), Str("user"), Str("Admin")}

AttachedUsers == {Undefined, Null} \cup {User("u", a, b) : a \in Roles, b \in Roles}

AdminRoutes == {rt \in Routes : rt[1] # "GET"}

InitAdmin ==
  /\ traffic = "auth"
  /\ Started
  /\ probe \in {[Arrived(FromFrontend(rt[1], rt[2], rt[3], Undefined, NoBody))
                    EXCEPT !.user = u] : rt \in AdminRoutes, u \in AttachedUsers}
  /\ svc = Unused /\ page = Unused /\ calc = Unused

RunRequireAdmin ==
  /\ probe.trace = << >>
  /\ probe' = requireAdmin(probe)
  /\ UNCHANGED <<traffic, reqs, requestCounts, now, products, nextId, svc, page,
                 calc>>

NextAdmin == RunRequireAdmin

SpecAdmin == InitAdmin /\ [][NextAdmin]_vars

(***************************************************************************)
(* The data client on its own (services/supabase.service.ts): the module   *)
(* variable `supabase`, the clients createClient has made, and the calls   *)
(* of supabaseService in flight. A call runs to its await in one turn and  *)
(* settles in a later one.                                                 *)
(***************************************************************************)
\* The calls of supabaseService that can be in flight at once.
NumCalls == 2
\* The clients a behaviour constructs at most.
MaxClients == 2

server == <<traffic, reqs, requestCounts, now, products, nextId, probe>>

ServiceOps ==
  {"verifyToken", "getProducts", "getProductById", "createProduct",
   "updateProduct", "deleteProduct", "healthCheck"}

\* The operations whose accessToken parameter is optional.
ReadOps == {"getProducts", "getProductById"}

AccessTokens == {Str("tok-a"), Str("tok-b")}

\* The accessToken arguments an operation is called with.
TokensOf(op) ==
  IF op = "healthCheck" THEN {Undefined}
  ELSE IF op \in ReadOps THEN AccessTokens \cup {Undefined, Str("")}
  ELSE AccessTokens \cup {Str("")}

\* createClient(url, key) and createClient(url, key, {global: {headers}}): the
\* id tells the instances apart (the n-th client the process made).
AnonClient(id) == [t |-> "client", id |-> id, anon |-> TRUE, token |-> Undefined]
TokenClient(id, accessToken) ==
  [t |-> "client", id |-> id, anon |-> FALSE, token |-> accessToken]

\* A faulty getSupabaseClient: the module variable is not consulted.
getSupabaseClientAlways(m) ==
  IF ~m.env THEN [threw |-> TRUE, client |-> Null, m |-> m]
  ELSE [threw |-> FALSE, client |-> AnonClient(m.made + 1),
        m |-> [m EXCEPT !.supabase = AnonClient(m.made + 1), !.made = @ + 1]]

\* The lazily constructed client without a token; throws when the
\* configuration is missing. m is the module's state: the environment, the
\* variable `supabase` and the number of clients made so far.
getSupabaseClient(m) ==
  IF Truthy(m.supabase) THEN [threw |-> FALSE, client |-> m.supabase, m |-> m]
  ELSE IF ~m.env THEN [threw |-> TRUE, client |-> Null, m |-> m]
  ELSE [threw |-> FALSE, client |-> AnonClient(m.made + 1),
        m |-> [m EXCEPT !.supabase = AnonClient(m.made + 1), !.made = @ + 1]]

\* A faulty getAuthenticatedClient: the client is kept in the module variable
\* and handed out again.
getAuthenticatedClientCached(m, accessToken) ==
  IF ~m.env THEN [threw |-> TRUE, client |-> Null, m |-> m]
  ELSE IF Truthy(m.supabase)
    THEN [threw |-> FALSE, client |-> m.supabase, m |-> m]
  ELSE [threw |-> FALSE, client |-> TokenClient(m.made + 1, accessToken),
        m |-> [m EXCEPT !.supabase = TokenClient(m.made + 1, accessToken),
                        !.made = @ + 1]]

\* A new client carrying the token; throws when the configuration is missing.
getAuthenticatedClient(m, accessToken) ==
  IF ~m.env THEN [threw |-> TRUE, client |-> Null, m |-> m]
  ELSE [threw |-> FALSE, client |-> TokenClient(m.made + 1, accessToken),
        m |-> [m EXCEPT !.made = @ + 1]]

\* The client an operation works with.
ClientFor(m, op, accessToken) ==
  IF op = "healthCheck" THEN getSupabaseClient(m)
  ELSE IF op \in ReadOps /\ ~Truthy(accessToken) THEN getSupabaseClient(m)
  ELSE getAuthenticatedClient(m, accessToken)

\* What an operation returns: a boolean from healthCheck, a record with an
\* error field from the others.
Failure(op) ==
  IF op = "healthCheck" THEN [t |-> "bool", v |-> FALSE]
  ELSE [t |-> "result", error |-> Err]

Success(op) ==
  IF op = "healthCheck" THEN [t |-> "bool", v |-> TRUE]
  ELSE [t |-> "result", error |-> Null]

\* A faulty catch: the exception leaves the operation.
CaughtRethrown(call, cause) ==
  [call EXCEPT !.pc = "returned", !.cause = cause, !.escaped = TRUE]

\* The catch block of an operation: the failure is returned as a value.
Caught(call, cause) ==
  [call EXCEPT !.pc = "returned", !.cause = cause, !.value = Failure(call.op)]

NoCall ==
  [pc |-> "idle", op |-> "", token |-> Undefined, client |-> Null, cause |-> "",
   escaped |-> FALSE, value |-> Undefined, madeBefore |-> 0]

\* An operation from its call to its await.
Begin(m, op, accessToken) ==
  LET got == ClientFor(m, op, accessToken)
      call == [NoCall EXCEPT !.op = op, !.token = accessToken,
                             !.madeBefore = m.made]
  IN IF got.threw THEN [m |-> got.m, call |-> Caught(call, "config")]
     ELSE [m |-> got.m,
           call |-> [call EXCEPT !.pc = "await", !.client = got.client]]

\* An operation from its await on.
Resume(call, outcome) ==
  IF outcome = "throw" THEN Caught(call, "throw")
  ELSE IF outcome = "error"
    THEN [call EXCEPT !.pc = "returned", !.cause = "error",
                      !.value = Failure(call.op)]
  ELSE [call EXCEPT !.pc = "returned", !.value = Success(call.op)]

\* How many clients without a token were made: 0, 1, or 2 for more.
AnonMade(count, before, after) ==
  IF after.made > before.made /\ Truthy(after.supabase)
       /\ after.supabase.id = after.made /\ count < 2
    THEN count + 1
    ELSE count

InitService ==
  /\ traffic = "auth" /\ Started /\ probe = Idle
  /\ page = Unused /\ calc = Unused
  /\ \E env \in BOOLEAN :
       svc = [env |-> env, supabase |-> Null, made |-> 0, anonMade |-> 0,
              calls |-> [k \in 1..NumCalls |-> NoCall]]

\* A caller's continuation runs as soon as its operation has returned, ahead of
\* every other turn.
NoneReturned == \A k \in 1..NumCalls : svc.calls[k].pc # "returned"

ServiceCall(k) ==
  /\ NoneReturned
  /\ svc.calls[k].pc = "idle"
  /\ \E op \in ServiceOps : \E accessToken \in TokensOf(op) :
       LET before == [env |-> svc.env, supabase |-> svc.supabase,
                      made |-> svc.made]
           begun == Begin(before, op, accessToken)
       IN /\ begun.m.made <= MaxClients
          /\ svc' = [svc EXCEPT !.supabase = begun.m.supabase,
                                !.made = begun.m.made,
                                !.anonMade = AnonMade(@, before, begun.m),
                                !.calls[k] = begun.call]
  /\ UNCHANGED <<server, page, calc>>

ServiceSettle(k) ==
  /\ NoneReturned
  /\ svc.calls[k].pc = "await"
  /\ \E outcome \in DbOutcomes :
       svc' = [svc EXCEPT !.calls[k] = Resume(@, outcome)]
  /\ UNCHANGED <<server, page, calc>>

\* The caller has its result.
ServiceDone(k) ==
  /\ svc.calls[k].pc = "returned"
  /\ svc' = [svc EXCEPT !.calls[k] = NoCall]
  /\ UNCHANGED <<server, page, calc>>

NextService ==
  \/ \E k \in 1..NumCalls : ServiceCall(k)
  \/ \E k \in 1..NumCalls : ServiceSettle(k)
  \/ \E k \in 1..NumCalls : ServiceDone(k)

SpecService == InitService /\ [][NextService]_vars

(***************************************************************************)
(* The product search on its own: sanitizeSearchTerm, the filter that      *)
(* supabaseService.getProducts applies, and the answer of GET /products.   *)
(***************************************************************************)
\* str.replace(/[chars]/g, ''): s without the characters of chars.
RECURSIVE RemoveChars(_, _)
RemoveChars(s, chars) ==
  IF Len(s) = 0 THEN ""
  ELSE LET rest == RemoveChars(SubSeq(s, 2, Len(s)), chars)
       IN IF IndexOf(chars, SubSeq(s, 1, 1)) > 0 THEN rest
          ELSE SubSeq(s, 1, 1) \o rest

\* str.replace(/pat/g, '') for a literal pat: one pass from the left over the
\* matches that do not overlap.
RECURSIVE RemoveAll(_, _)
RemoveAll(s, pat) ==
  IF Len(s) < Len(pat) THEN s
  ELSE IF StartsWith(s, pat) THEN RemoveAll(SubSeq(s, Len(pat) + 1, Len(s)), pat)
  ELSE SubSeq(s, 1, 1) \o RemoveAll(SubSeq(s, 2, Len(s)), pat)

\* str.trim(), for the white space the terms carry (blanks).
RECURSIVE TrimStart(_)
TrimStart(s) ==
  IF Len(s) > 0 /\ SubSeq(s, 1, 1) = " " THEN TrimStart(SubSeq(s, 2, Len(s)))
  ELSE s

RECURSIVE TrimEnd(_)
TrimEnd(s) ==
  IF Len(s) > 0 /\ SubSeq(s, Len(s), Len(s)) = " "
    THEN TrimEnd(SubSeq(s, 1, Len(s) - 1))
  ELSE s

Trim(s) == TrimEnd(TrimStart(s))

LowerCase == "abcdefghijklmnopqrstuvwxyz"
UpperCase == "ABCDEFGHIJKLMNOPQRSTUVWXYZ"

ToUpperChar(ch) ==
  LET i == IndexOf(LowerCase, ch)
  IN IF i > 0 THEN SubSeq(UpperCase, i, i) ELSE ch

RECURSIVE ToUpperCase(_)
ToUpperCase(s) ==
  IF Len(s) = 0 THEN ""
  ELSE ToUpperChar(SubSeq(s, 1, 1)) \o ToUpperCase(SubSeq(s, 2, Len(s)))

\* \w of a regular expression: a letter, a digit or the underscore.
IsWordChar(ch) == IndexOf(UpperCase \o Digits \o "_", ToUpperChar(ch)) > 0

\* \b of a regular expression between the characters i and i + 1 of s.
WordBoundary(s, i) ==
  LET before == i >= 1 /\ IsWordChar(SubSeq(s, i, i))
      after == i < Len(s) /\ IsWordChar(SubSeq(s, i + 1, i + 1))
  IN before # after

sqlKeywords ==
  {"SELECT", "INSERT", "UPDATE", "DELETE", "DROP", "UNION", "ALTER", "CREATE",
   "EXEC", "EXECUTE"}

\* A faulty keyword test: the i flag is missing.
MatchesKeywordAtCaseSensitive(s, i) ==
  \E kw \in sqlKeywords :
    /\ i + Len(kw) - 1 <= Len(s)
    /\ SubSeq(s, i, i + Len(kw) - 1) = kw
    /\ WordBoundary(s, i - 1) /\ WordBoundary(s, i + Len(kw) - 1)

\* /\b(SELECT|...|EXECUTE)\b/i matches s at the character i.
MatchesKeywordAt(s, i) ==
  \E kw \in sqlKeywords :
    /\ i + Len(kw) - 1 <= Len(s)
    /\ ToUpperCase(SubSeq(s, i, i + Len(kw) - 1)) = kw
    /\ WordBoundary(s, i - 1) /\ WordBoundary(s, i + Len(kw) - 1)

\* sqlKeywords.test(s): the expression is tried at every character from the
\* left.
RECURSIVE TestFrom(_, _)
TestFrom(s, i) ==
  IF i > Len(s) THEN FALSE
  ELSE IF MatchesKeywordAt(s, i) THEN TRUE
  ELSE TestFrom(s, i + 1)

\* The cleaning steps of sanitizeSearchTerm, in the order of the code.
Cleaned(term) ==
  Trim(RemoveAll(RemoveAll(RemoveAll(RemoveChars(term, ";'\"\\"), "--"), "/*"),
                 "*/"))

sanitizeSearchTerm(term) ==
  LET cleaned == Cleaned(term)
  IN IF TestFrom(cleaned, 1) THEN Null
     ELSE IF Len(cleaned) > 0 THEN Str(cleaned) ELSE Null

\* The text filter supabaseService.getProducts puts on its query (null: none).
SearchFilter(searchTerm) ==
  IF Truthy(searchTerm)
    THEN LET sanitizedTerm == sanitizeSearchTerm(searchTerm.v)
         IN IF Truthy(sanitizedTerm) THEN sanitizedTerm ELSE Null
    ELSE Null

\* The ?search= values of GET /products.
SearchTerms ==
  {Undefined} \cup
  {Str(s) : s \in
     {"", " ", "book", "Book 2", "select", "SELECT", "SeLeCt", "selection",
      "select_all", "1select", "drop table", "x;DROP--", "sel--ect", "se;lect",
      "DR/*OP", "uni*/on books", "'; DROP TABLE products; --", "  union  ",
      "exec", "EXECUTE", "executes", "alter-ego", "create.", "(insert)",
      "up date", "Update", "delete\"", "a--", "--", "/**/", "dele te", "de'lete x",
      "-;-", "/--*", "//**", "**//", "-/**/-", "a //** b"}}

InitSearch ==
  /\ traffic = "catalog" /\ Started /\ probe = Idle
  /\ svc = Unused /\ page = Unused
  /\ \E term \in SearchTerms :
       calc = [pc |-> "arrived", search |-> term, filter |-> Undefined,
               error |-> Undefined, status |-> 0]

\* GET /products reaches supabaseService.getProducts, which builds its query.
SearchQuery ==
  /\ calc.pc = "arrived"
  /\ calc' = [calc EXCEPT !.pc = "query", !.filter = SearchFilter(calc.search)]
  /\ UNCHANGED <<server, svc, page>>

\* The query settles and the controller answers.
SearchSettle ==
  /\ calc.pc = "query"
  /\ \E outcome \in DbOutcomes :
       calc' = [calc EXCEPT !.pc = "done", !.error = serviceError(outcome),
                            !.status = IF Truthy(serviceError(outcome))
                                         THEN 500 ELSE 200]
  /\ UNCHANGED <<server, svc, page>>

NextSearch == SearchQuery \/ SearchSettle

SpecSearch == InitSearch /\ [][NextSearch]_vars

(***************************************************************************)
(* ValidationUtils.sanitizeNumber on its own. A finite number is a sign, a *)
(* whole part and thousandths (the inputs carry at most three decimals);   *)
(* parseFloat reads the longest numeric prefix of a string.                *)
(***************************************************************************)
NumberLimit == 999999999

Dec(neg, whole, milli) == [t |-> "dec", neg |-> neg, whole |-> whole, milli |-> milli]

Infinity(neg) == [t |-> "inf", neg |-> neg]

\* The number of digits at the start of s.
RECURSIVE DigitCount(_)
DigitCount(s) ==
  IF Len(s) = 0 \/ ~IsDigit(SubSeq(s, 1, 1)) THEN 0
  ELSE 1 + DigitCount(Substring(s, 1))

\* The thousandths the decimals stand for.
Milli(decimals) == DigitsPrefix(SubSeq(decimals \o "000", 1, 3), 0)

\* parseFloat(String(input)): leading blanks, an optional sign, then Infinity
\* or digits with an optional decimal part; what follows is ignored, and NaN
\* when no number starts the text.
parseFloat(input) ==
  IF input.t \in {"dec", "inf"} THEN input
  ELSE IF input.t # "str" THEN NaN
  ELSE LET text == TrimStart(input.v)
           neg == StartsWith(text, "-")
           body == IF neg \/ StartsWith(text, "+") THEN Substring(text, 1) ELSE text
           n == DigitCount(body)
           tail == Substring(body, n)
           decimals == IF StartsWith(tail, ".")
                         THEN SubSeq(tail, 2, 1 + DigitCount(Substring(tail, 1)))
                         ELSE ""
       IN IF StartsWith(body, "Infinity") THEN Infinity(neg)
          ELSE IF n + Len(decimals) = 0 THEN NaN
          ELSE Dec(neg, DigitsPrefix(body, 0), Milli(decimals))

\* num > 999999999 || num < -999999999
OutOfRange(num) ==
  num.whole > NumberLimit \/ (num.whole = NumberLimit /\ num.milli > 0)

\* Math.round(num * 100) / 100. When the third decimal is 5 the product lies
\* at, just under or just over a half in binary floating point, and the
\* result goes either way: tieUp says which.
Round2(num, tieUp) ==
  LET last == num.milli % 10
      up == last > 5 \/ (last = 5 /\ tieUp)
      hundredths == (num.milli \div 10) + (IF up THEN 1 ELSE 0)
      whole == IF hundredths = 100 THEN num.whole + 1 ELSE num.whole
      milli == IF hundredths = 100 THEN 0 ELSE hundredths * 10
  IN Dec(num.neg /\ (whole # 0 \/ milli # 0), whole, milli)

sanitizeNumber(input, tieUp) ==
  IF input \in {Null, Undefined, Str("")} THEN Null
  ELSE LET num == parseFloat(input)
       IN IF num.t \in {"nan", "inf"} THEN Null
          ELSE IF OutOfRange(num) THEN Null
          ELSE Round2(num, tieUp)

\* The inputs: texts made of a sign, a whole part, decimals and a suffix, and
\* values that are no text.
NumberTexts ==
  {sign \o whole \o decimals \o suffix :
     sign \in {"", "-", "+"},
     whole \in {"", "0", "12", "999999999", "1000000000"},
     decimals \in {"", ".5", ".004", ".005", ".995", ".999"},
     suffix \in {"", "abc", " "}}
    \cup {" ", " 7", "abc", "Infinity", "-Infinity", "NaN", "$5", "1,5"}

NumberInputs ==
  {Null, Undefined, Infinity(FALSE), Infinity(TRUE), Dec(FALSE, 0, 0),
   Dec(FALSE, 12, 345), Dec(TRUE, 0, 5), Dec(FALSE, NumberLimit, 0),
   Dec(TRUE, NumberLimit, 1), Dec(FALSE, NumberLimit + 1, 0)}
    \cup {Str(s) : s \in NumberTexts}

InitNumber ==
  /\ traffic = "catalog" /\ Started /\ probe = Idle
  /\ svc = Unused /\ page = Unused
  /\ \E input \in NumberInputs :
       calc = [pc |-> "input", input |-> input, result |-> Undefined]

RunSanitizeNumber ==
  /\ calc.pc = "input"
  /\ \E tieUp \in BOOLEAN :
       calc' = [calc EXCEPT !.pc = "done",
                            !.result = sanitizeNumber(calc.input, tieUp)]
  /\ UNCHANGED <<server, svc, page>>

NextNumber == RunSanitizeNumber

SpecNumber == InitNumber /\ [][NextNumber]_vars

(***************************************************************************)
(* The browser's SupabaseService (public/js/services/supabase.js): the one *)
(* service object, the runs of _doInitialize (each the promise that        *)
(* initialize() hands out) and the callers of initSupabase(). A run has    *)
(* two awaits, the config fetch and response.json().                       *)
(***************************************************************************)
\* The callers of initSupabase() at one time.
NumCallers == 2
\* The runs of _doInitialize a behaviour starts at most.
MaxAttempts == 2

NoCaller == [pc |-> "idle", on |-> 0, value |-> Null, after |-> FALSE]

\* The service as its constructor leaves it; made counts the createClient
\* calls, and a client is known by that count.
NewService ==
  [client |-> Null, config |-> Null, isInitialized |-> FALSE, initPromise |-> 0,
   made |-> 0, attempts |-> << >>]

\* this.initPromise = this._doInitialize(): the run goes to its first await.
StartAttempt(s) ==
  [s EXCEPT !.attempts = Append(@, [pc |-> "fetch"]),
            !.initPromise = Len(s.attempts) + 1]

\* A faulty initialize: a run is started whatever the state of the service.
initializeAlways(s) ==
  [s |-> StartAttempt(s), on |-> Len(s.attempts) + 1, value |-> Null]

\* initialize(): the client if there is one, else the promise of the run in
\* progress, else the promise of a new run. `on` is the run whose promise the
\* caller is handed (0: the caller is handed `value`).
initialize(s) ==
  IF s.isInitialized /\ Truthy(s.client)
    THEN [s |-> s, on |-> 0, value |-> s.client]
  ELSE IF s.initPromise # 0
    THEN [s |-> s, on |-> s.initPromise, value |-> Null]
  ELSE [s |-> StartAttempt(s), on |-> Len(s.attempts) + 1, value |-> Null]

\* A faulty catch block: initPromise is left as it is.
doInitializeFailedNoReset(s, a) ==
  [s EXCEPT !.attempts[a] = [pc |-> "rejected"]]

\* The catch block of _doInitialize: initPromise is reset and the error is
\* thrown on to whoever holds the promise.
doInitializeFailed(s, a) ==
  [s EXCEPT !.attempts[a] = [pc |-> "rejected"], !.initPromise = 0]

\* _doInitialize from `await fetch` on. A fetch that throws or answers not ok
\* ends in the catch block.
doInitializeFetched(s, a, outcome) ==
  IF outcome = "ok" THEN [s EXCEPT !.attempts[a] = [pc |-> "json"]]
  ELSE doInitializeFailed(s, a)

\* _doInitialize from `await response.json()` on. createClient throws on a
\* config without url or key.
doInitializeParsed(s, a, outcome) ==
  IF outcome = "throw" THEN doInitializeFailed(s, a)
  ELSE IF ~Truthy(s.client) /\ outcome = "badconfig"
    THEN doInitializeFailed([s EXCEPT !.config = Str("config")], a)
  ELSE LET client == IF Truthy(s.client) THEN s.client
                     ELSE [t |-> "client", id |-> s.made + 1]
       IN [s EXCEPT !.config = Str("config"),
                    !.client = client,
                    !.made = IF Truthy(s.client) THEN @ ELSE @ + 1,
                    !.isInitialized = TRUE,
                    !.attempts[a] = [pc |-> "resolved", value |-> client]]

\* getSupabase()
getSupabase(s) == s.client

InitBrowser ==
  /\ traffic = "catalog" /\ Started /\ probe = Idle
  /\ svc = Unused /\ calc = Unused
  /\ page = [service |-> NewService, callers |-> [p \in 1..NumCallers |-> NoCaller]]

\* A component calls initSupabase(). `after` tells whether a run had succeeded
\* by then.
InitSupabaseCall(p) ==
  /\ page.callers[p].pc = "idle"
  /\ LET got == initialize(page.service)
         after == \E a \in 1..Len(page.service.attempts) :
                    page.service.attempts[a].pc = "resolved"
     IN /\ Len(got.s.attempts) <= MaxAttempts
        /\ page' = [page EXCEPT
                      !.service = got.s,
                      !.callers[p] =
                         IF got.on = 0
                           THEN [pc |-> "got", on |-> 0, value |-> got.value,
                                 after |-> after]
                           ELSE [pc |-> "waiting", on |-> got.on, value |-> Null,
                                 after |-> after]]
  /\ UNCHANGED <<server, svc, calc>>

\* The config fetch of a run settles.
FetchSettle(a) ==
  /\ a <= Len(page.service.attempts)
  /\ page.service.attempts[a].pc = "fetch"
  /\ \E outcome \in {"ok", "notok", "throw"} :
       page' = [page EXCEPT !.service = doInitializeFetched(@, a, outcome)]
  /\ UNCHANGED <<server, svc, calc>>

\* response.json() of a run settles.
JsonSettle(a) ==
  /\ a <= Len(page.service.attempts)
  /\ page.service.attempts[a].pc = "json"
  /\ \E outcome \in {"ok", "badconfig", "throw"} :
       page' = [page EXCEPT !.service = doInitializeParsed(@, a, outcome)]
  /\ UNCHANGED <<server, svc, calc>>

\* A caller's await on the promise of a settled run resumes.
CallerResume(p) ==
  /\ page.callers[p].pc = "waiting"
  /\ LET run == page.service.attempts[page.callers[p].on]
     IN /\ run.pc \in {"resolved", "rejected"}
        /\ page' = [page EXCEPT
                      !.callers[p].pc = IF run.pc = "resolved" THEN "got"
                                        ELSE "failed",
                      !.callers[p].value = IF run.pc = "resolved" THEN run.value
                                           ELSE Null]
  /\ UNCHANGED <<server, svc, calc>>

\* The caller goes on with what it got.
CallerDone(p) ==
  /\ page.callers[p].pc \in {"got", "failed"}
  /\ page' = [page EXCEPT !.callers[p] = NoCaller]
  /\ UNCHANGED <<server, svc, calc>>

NextBrowser ==
  \/ \E p \in 1..NumCallers : InitSupabaseCall(p)
  \/ \E a \in 1..MaxAttempts : FetchSettle(a)
  \/ \E a \in 1..MaxAttempts : JsonSettle(a)
  \/ \E p \in 1..NumCallers : CallerResume(p)
  \/ \E p \in 1..NumCallers : CallerDone(p)

SpecBrowser == InitBrowser /\ [][NextBrowser]_vars

(***************************************************************************)
(* The rate limiter on its own: the middleware rateLimitByOrigin(maxRequests,*)
(* windowMs) over its requestCounts map and the clock. Next to the map the *)
(* specification keeps a record of what happened: for every identifier the *)
(* requests passed on (arrival time, and the arrival time of the request    *)
(* that opened the window they were counted in).                            *)
(***************************************************************************)
NoPasses == [passed |-> EmptyMap]

\* The requests of the identifier passed on so far.
PassedOf(k) == IF k \in DOMAIN calc.passed THEN calc.passed[k] ELSE << >>

\* The arrival time of the request that opened the identifier's window: this
\* request when it finds no record or one whose reset time has passed, else the
\* one that opened the window of the identifier's last passed request.
OpenedAt(counts, k, t) ==
  IF k \notin DOMAIN counts \/ t > counts[k].resetTime THEN t
  ELSE PassedOf(k)[Len(PassedOf(k))].window

\* The clients of the limiter taken on its own: one known by its ip, one (no
\* ip) by its Origin.
WindowTraffic == {a \in LimiterTraffic : Truthy(a.origin)}

InitLimiter ==
  /\ traffic = "limiter" /\ Started /\ probe = Idle
  /\ svc = Unused /\ page = Unused
  /\ calc = NoPasses

\* A request goes through the limiter.
LimiterRequest ==
  /\ \E a \in WindowTraffic :
       LET c == rateLimitByOrigin(Arrived(a), requestCounts, now)
           k == Identifier(c)
       IN /\ probe' = c
          /\ requestCounts' = rateLimitCounts(requestCounts, k, now)
          /\ calc' =
               IF CalledNext(c, "rateLimitByOrigin")
                 THEN [calc EXCEPT !.passed =
                         MapSet(@, k, Append(PassedOf(k),
                                  [at |-> now,
                                   window |-> OpenedAt(requestCounts, k, now)]))]
                 ELSE calc
  /\ UNCHANGED <<traffic, reqs, products, nextId, svc, page, now>>

LimiterTick ==
  /\ now < MaxTime
  /\ now' = now + 1
  /\ UNCHANGED <<traffic, reqs, requestCounts, products, nextId, probe, svc,
                 page, calc>>

NextLimiter == LimiterRequest \/ LimiterTick

SpecLimiter == InitLimiter /\ [][NextLimiter]_vars

(***************************************************************************)
(* The hooks useAuth (public/js/hooks/useAuth.js) and useAPI, one mounted  *)
(* instance of each, over the client's auth-state subscriptions. An        *)
(* instance has the locals of its effect (mounted, authSubscription) and   *)
(* the place its asynchronous work has reached; subs are the subscriptions *)
(* onAuthStateChange has handed out. The record keeps, next to that,        *)
(* whether a state setter ran after the unmount (late).                     *)
(***************************************************************************)
NoHook ==
  [pc |-> "new", mounted |-> FALSE, authSubscription |-> 0, pending |-> 0,
   timer |-> "none", updated |-> FALSE, late |-> FALSE]

\* setSession(...), setUser(...), setLoading(...), setSupabaseReady(...)
SetState(h) == [h EXCEPT !.updated = TRUE, !.late = @ \/ ~h.mounted]

\* if (mounted) { set... }
SetStateIfMounted(h) == IF h.mounted THEN SetState(h) ELSE h

\* supabase.auth.onAuthStateChange(callback): a new active subscription.
onAuthStateChange(subs, owner) == Append(subs, [owner |-> owner, active |-> TRUE])

\* authSubscription?.unsubscribe()
Unsubscribe(subs, authSubscription) ==
  IF authSubscription = 0 THEN subs
  ELSE [subs EXCEPT ![authSubscription].active = FALSE]

\* useAPI's setupSessionListener: with a client there is, the session is asked
\* for and a listener is registered.
setupSessionListener(pg) ==
  IF pg.client
    THEN [pg EXCEPT !.api.pending = @ + 1,
                    !.subs = onAuthStateChange(@, "api"),
                    !.api.authSubscription = Len(pg.subs) + 1]
    ELSE pg

\* useAuth's initializeAuth from `await initSupabase()` on.
initializeAuthInitialized(pg, ok) ==
  IF ~ok THEN [pg EXCEPT !.auth = [SetStateIfMounted(@) EXCEPT !.pc = "ended"]]
  ELSE IF ~pg.auth.mounted
    THEN [pg EXCEPT !.client = TRUE, !.auth.pc = "ended"]
  ELSE [pg EXCEPT !.client = TRUE, !.auth = [SetState(@) EXCEPT !.pc = "session"]]

\* useAuth's initializeAuth from `await supabaseClient.auth.getSession()` on.
initializeAuthSession(pg, ok) ==
  IF ~ok THEN [pg EXCEPT !.auth = [SetStateIfMounted(@) EXCEPT !.pc = "ended"]]
  ELSE [pg EXCEPT !.auth = [SetStateIfMounted(@) EXCEPT
                              !.pc = "listening",
                              !.authSubscription = Len(pg.subs) + 1],
                  !.subs = onAuthStateChange(@, "auth")]

InitHooks ==
  /\ traffic = "catalog" /\ Started /\ probe = Idle
  /\ svc = Unused /\ calc = Unused
  /\ \E client \in BOOLEAN :
       page = [client |-> client, subs |-> << >>, auth |-> NoHook, api |-> NoHook]

\* useAuth mounts: its effect runs initializeAuth up to `await initSupabase()`.
AuthMount ==
  /\ page.auth.pc = "new"
  /\ page' = [page EXCEPT !.auth.mounted = TRUE, !.auth.pc = "init"]
  /\ UNCHANGED <<server, svc, calc>>

\* initSupabase() settles.
AuthInitSettle ==
  /\ page.auth.pc = "init"
  /\ \E ok \in BOOLEAN :
       /\ page.client => ok
       /\ page' = initializeAuthInitialized(page, ok)
  /\ UNCHANGED <<server, svc, calc>>

\* getSession() settles.
AuthSessionSettle ==
  /\ page.auth.pc = "session"
  /\ \E ok \in BOOLEAN : page' = initializeAuthSession(page, ok)
  /\ UNCHANGED <<server, svc, calc>>

\* useAuth unmounts: the cleanup of its effect.
AuthUnmount ==
  /\ page.auth.mounted
  /\ page' = [page EXCEPT !.auth.mounted = FALSE,
                          !.subs = Unsubscribe(@, page.auth.authSubscription)]
  /\ UNCHANGED <<server, svc, calc>>

\* useAPI mounts: its effect calls setupSessionListener and sets the 100 ms
\* timer that calls it again.
ApiMount ==
  /\ page.api.pc = "new"
  /\ page' = setupSessionListener(
               [page EXCEPT !.api.mounted = TRUE, !.api.pc = "mounted",
                            !.api.timer = "set"])
  /\ UNCHANGED <<server, svc, calc>>

\* The timer fires.
ApiRetry ==
  /\ page.api.timer = "set"
  /\ page' = setupSessionListener([page EXCEPT !.api.timer = "fired"])
  /\ UNCHANGED <<server, svc, calc>>

\* A getSession() of useAPI settles: its then-callback runs.
ApiSessionSettle ==
  /\ page.api.pending > 0
  /\ page' = [page EXCEPT !.api = [SetStateIfMounted(@) EXCEPT !.pending = @ - 1]]
  /\ UNCHANGED <<server, svc, calc>>

\* useAPI unmounts: the cleanup of its effect.
ApiUnmount ==
  /\ page.api.mounted
  /\ page' = [page EXCEPT
                !.api.mounted = FALSE,
                !.api.timer = IF @ = "set" THEN "cleared" ELSE @,
                !.subs = Unsubscribe(@, page.api.authSubscription)]
  /\ UNCHANGED <<server, svc, calc>>

\* The client reports an auth state change to an active subscription: the
\* callback the hook registered runs.
AuthStateChange(i) ==
  /\ page.subs[i].active
  /\ page' = IF page.subs[i].owner = "auth"
               THEN [page EXCEPT !.auth = SetStateIfMounted(@)]
               ELSE [page EXCEPT !.api = SetStateIfMounted(@)]
  /\ UNCHANGED <<server, svc, calc>>

NextHooks ==
  \/ AuthMount
  \/ AuthInitSettle
  \/ AuthSessionSettle
  \/ AuthUnmount
  \/ ApiMount
  \/ ApiRetry
  \/ ApiSessionSettle
  \/ ApiUnmount
  \/ \E i \in 1..Len(page.subs) : AuthStateChange(i)

SpecHooks == InitHooks /\ [][NextHooks]_vars

(***************************************************************************)
(* Properties.                                                             *)
(***************************************************************************)
\* The requests in the slots.
Handled == {reqs[r] : r \in 1..NumReqs}

Done(c) == c.pc = "done"

\* The header is a string that starts with "Bearer ".
IsBearerHeader(h) == h.t = "str" /\ Len(h.v) >= 7 /\ SubSeq(h.v, 1, 7) = "Bearer "

\* The token a bearer header presents.
Presented(h) == Str(SubSeq(h.v, 8, Len(h.v)))

\* What the request's operation op returned, if it has.
Returned(c, op) == {c.returns[i] : i \in {j \in 1..Len(c.returns) : c.returns[j].op = op}}

\* Verification returned a user and no error.
Verified(c) ==
  \E v \in Returned(c, "verifyToken") : v.value.t = "user" /\ v.error.t = "null"

\* Verification returned an error or no user.
VerifyFailed(c) ==
  \E v \in Returned(c, "verifyToken") : v.value.t # "user" \/ v.error.t # "null"

\* The user a verified request's token resolved to.
VerifiedUser(c) ==
  (CHOOSE v \in Returned(c, "verifyToken") : v.value.t = "user").value

NonEmpty(x) == x.t = "str" /\ x.v # ""

\* The role of a user: user_metadata.role when non-empty, else app_metadata.role.
RoleOf(u) ==
  IF NonEmpty(u.user_metadata.role) THEN u.user_metadata.role
  ELSE u.app_metadata.role

IsAdmin(u) == RoleOf(u) = Str("admin")

WriteOps == {"createProduct", "updateProduct", "deleteProduct"}

NoWrite(c) == \A i \in 1..Len(c.calls) : c.calls[i].op \notin WriteOps

\* title and author are present and price is a number greater than 0.
WellFormedPayload(body) ==
  /\ NonEmpty(body.title)
  /\ NonEmpty(body.author)
  /\ body.price.t = "num" /\ body.price.v > 0

\* C1: a create, update or delete call is issued to the data client only for a
\* request whose bearer token passed verification and whose resolved role is
\* 'admin', and with that token; a write request whose verified user is no
\* admin is answered 403 without a backend write; a POST by a verified admin
\* with a well-formed payload invokes the insert and is answered 201 when the
\* insert returns no error.
C1_AdminOnlyWrites ==
  \A c \in Handled :
    /\ \A i \in 1..Len(c.calls) :
         c.calls[i].op \in WriteOps =>
           /\ IsBearerHeader(c.authorization)
           /\ Verified(c)
           /\ VerifiedUser(c) = TokenUser(Presented(c.authorization).v)
           /\ IsAdmin(VerifiedUser(c))
           /\ c.calls[i].token = Presented(c.authorization)
    /\ (IsWrite(c) /\ Verified(c) /\ ~IsAdmin(VerifiedUser(c))) =>
         Status(c) = 403 /\ NoWrite(c)
    /\ (c.method = "POST" /\ Verified(c) /\ IsAdmin(VerifiedUser(c))
          /\ WellFormedPayload(c.body)) =>
         /\ Invoked(c, "createProduct")
         /\ \A v \in Returned(c, "createProduct") :
              v.error.t = "null" => Status(c) = 201

\* A verified admin's well-formed POST was answered 201.
C1_Witness ==
  \E c \in Handled :
    /\ c.method = "POST" /\ Status(c) = 201
    /\ Verified(c) /\ IsAdmin(VerifiedUser(c))
    /\ \E v \in Returned(c, "createProduct") : v.error.t = "null"

\* C2: requireAuth answers 401 without calling token verification when the
\* Authorization header is absent or does not start with 'Bearer '; it answers
\* 401 when verification returned an error or no user; and it calls next only
\* when verification of the presented token returned a user and no error, with
\* req.user that user and req.accessToken the presented token.
C2_RequireAuth ==
  \A c \in Handled :
    Entered(c, "requireAuth") =>
      /\ ~IsBearerHeader(c.authorization) =>
           Status(c) = 401 /\ ~Invoked(c, "verifyToken")
      /\ \A i \in 1..Len(c.calls) :
           c.calls[i].op = "verifyToken" =>
             c.calls[i].token = Presented(c.authorization)
      /\ VerifyFailed(c) => Status(c) = 401 /\ ~CalledNext(c, "requireAuth")
      /\ CalledNext(c, "requireAuth") =>
           /\ Verified(c) /\ ~VerifyFailed(c)
           /\ c.user = VerifiedUser(c)
           /\ c.accessToken = Presented(c.authorization)

\* requireAuth called next for a verified user.
C2_Witness ==
  \E c \in Handled :
    CalledNext(c, "requireAuth") /\ Verified(c) /\ c.user.t = "user"

\* C3: requireAdmin answers 401 when no user is attached to the request;
\* otherwise it answers 403 when the role (user_metadata.role when non-empty,
\* else app_metadata.role) is not 'admin', and calls next only when it is.
C3_RequireAdmin ==
  Entered(probe, "requireAdmin") =>
    IF probe.user \in {Undefined, Null}
      THEN Status(probe) = 401 /\ ~CalledNext(probe, "requireAdmin")
    ELSE IF IsAdmin(probe.user)
      THEN CalledNext(probe, "requireAdmin") /\ probe.sent = << >>
    ELSE Status(probe) = 403 /\ ~CalledNext(probe, "requireAdmin")

\* requireAdmin let a user through on the app_metadata role, user_metadata
\* holding none.
C3_Witness ==
  /\ CalledNext(probe, "requireAdmin")
  /\ ~NonEmpty(probe.user.user_metadata.role)
  /\ probe.user.app_metadata.role = Str("admin")

\* How often the handler called next().
NextCount(c, name) == Cardinality({i \in 1..Len(c.nexts) : c.nexts[i] = name})

\* C4: optionalAuth never fails a request: whatever the Authorization header and
\* the outcome of verification, it sends no response and calls next exactly once
\* (the controller runs); req.user and req.accessToken are set only when
\* verification returned a user and no error, and are unset otherwise.
C4_OptionalAuth ==
  \A c \in Handled :
    Entered(c, "optionalAuth") =>
      /\ \A i \in 1..Len(c.sent) : c.sent[i].by # "optionalAuth"
      /\ NextCount(c, "optionalAuth") = IF c.pc = "verifyToken" THEN 0 ELSE 1
      /\ c.pc # "verifyToken" =>
           Entered(c, "getProducts") \/ Entered(c, "getProductById")
      /\ (~IsBearerHeader(c.authorization)) => ~Invoked(c, "verifyToken")
      /\ IF Verified(c)
           THEN /\ c.user = VerifiedUser(c)
                /\ c.accessToken = Presented(c.authorization)
           ELSE c.user = Undefined /\ c.accessToken = Undefined

\* A read whose token failed verification was served.
C4_Witness ==
  \E c \in Handled :
    Entered(c, "optionalAuth") /\ VerifyFailed(c) /\ Status(c) = 200

\* The limiter's key of a request: its ip, else its Origin, else 'unknown'.
ClientKey(c) ==
  IF NonEmpty(c.ip) THEN c.ip.v
  ELSE IF NonEmpty(c.origin) THEN c.origin.v
  ELSE "unknown"

\* A request arrives in slot r and reaches the rate limiter.
LimiterArrival(r) ==
  /\ reqs[r].pc = "idle"
  /\ reqs'[r].pc # "idle"
  /\ Entered(reqs'[r], "rateLimitByOrigin")

\* The identifier has a window that the time t has not passed.
WindowOpen(k, t) == k \in DOMAIN requestCounts /\ t <= requestCounts[k].resetTime

SentBy(c, name, status) == c.sent = <<[by |-> name, status |-> status]>>

\* C5: with a limit of maxRequests per window of windowMs, the first maxRequests
\* requests of an identifier inside a window are passed on, every later request
\* inside the window is answered 429, and the first request after the window's
\* reset time starts a new window with count 1 and is passed on.
C5_RateLimit ==
  [][\A r \in 1..NumReqs :
       LimiterArrival(r) =>
         LET c == reqs'[r]
             k == ClientKey(c)
         IN IF ~WindowOpen(k, now)
              THEN /\ CalledNext(c, "rateLimitByOrigin")
                   /\ requestCounts'[k] = [count |-> 1, resetTime |-> now + windowMs]
            ELSE IF requestCounts[k].count < maxRequests
              THEN /\ CalledNext(c, "rateLimitByOrigin")
                   /\ requestCounts'[k] =
                        [requestCounts[k] EXCEPT !.count = @ + 1]
            ELSE /\ SentBy(c, "rateLimitByOrigin", 429)
                 /\ ~CalledNext(c, "rateLimitByOrigin")]_vars

\* A request was answered 429 inside a full window, and the window before it has
\* been replaced (its reset time lies beyond windowMs).
C5_Witness ==
  \E c \in Handled :
    /\ SentBy(c, "rateLimitByOrigin", 429)
    /\ requestCounts[ClientKey(c)].count = maxRequests
    /\ requestCounts[ClientKey(c)].resetTime > windowMs

\* The request has no Origin header (or an empty one).
NoOrigin(c) == ~NonEmpty(c.origin)

\* The Referer is a URL whose host is the request's Host header.
RefererIsHost(c) ==
  /\ NonEmpty(c.referer) /\ NonEmpty(c.host)
  /\ URLParses(c.referer.v)
  /\ URLHost(c.referer.v) = c.host.v

AllowList == {"http://localhost:3000", "http://127.0.0.1:3000"}

\* The origin check accepts the request.
OriginAccepted(c) ==
  \/ NonEmpty(c.origin) /\ c.origin.v \in AllowList
  \/ NoOrigin(c) /\ RefererIsHost(c)

\* C6: the origin middleware passes a request on if and only if its Origin is an
\* allow-list entry, or it has no Origin and its Referer host equals its Host;
\* every other non-OPTIONS request (also one whose Referer is no parsable URL)
\* is answered 403 and is not passed on.
C6_OriginGate ==
  \A c \in Handled :
    (Entered(c, "enhancedCors") /\ c.method # "OPTIONS") =>
      /\ CalledNext(c, "enhancedCors") <=> OriginAccepted(c)
      /\ ~OriginAccepted(c) => SentBy(c, "enhancedCors", 403)

\* The handlers behind the origin check.
BehindCors ==
  {"apiSecurityHeaders", "rateLimitByOrigin", "requireAuth", "optionalAuth",
   "requireAdmin", "getProducts", "getProductById", "createProduct",
   "updateProduct", "deleteProduct", "authUser"}

NotPassedOn(c, handlers) ==
  /\ \A i \in 1..Len(c.trace) : c.trace[i] \notin handlers
  /\ c.calls = << >>

\* C7 as stated: every OPTIONS request is answered 200 by the origin middleware
\* after the CORS headers are assigned, never 403, and is not passed on.
C7_PreflightAlways200 ==
  \A c \in Handled :
    (Entered(c, "enhancedCors") /\ c.method = "OPTIONS") =>
      /\ SentBy(c, "enhancedCors", 200)
      /\ c.acao # Undefined
      /\ ~CalledNext(c, "enhancedCors") /\ NotPassedOn(c, BehindCors)

\* C7, amended: an OPTIONS request is never passed on; it is answered 200 by the
\* origin middleware, with the CORS header assigned, exactly when its origin
\* passes the check every request goes through, and is otherwise rejected by
\* that check with no CORS header assigned (403, or the error handler's 500
\* when the Referer does not parse).
C7_Preflight ==
  \A c \in Handled :
    (Entered(c, "enhancedCors") /\ c.method = "OPTIONS") =>
      /\ ~CalledNext(c, "enhancedCors") /\ NotPassedOn(c, BehindCors)
      /\ OriginAccepted(c) =>
           /\ SentBy(c, "enhancedCors", 200)
           /\ c.acao = IF NoOrigin(c) THEN Str("*") ELSE c.origin
      /\ ~OriginAccepted(c) =>
           /\ c.acao = Undefined
           /\ \/ SentBy(c, "enhancedCors", 403)
              \/ /\ SentBy(c, "errorHandler", 500)
                 /\ NoOrigin(c) /\ NonEmpty(c.referer) /\ ~URLParses(c.referer.v)

\* A preflight request from an allowed origin was answered 200.
C7_Witness ==
  \E c \in Handled :
    c.method = "OPTIONS" /\ SentBy(c, "enhancedCors", 200) /\ c.acao = c.origin

\* The place of a handler in the app's order.
Rank(name) ==
  CASE name = "securityHeaders" -> 1
    [] name = "enhancedCors" -> 2
    [] name = "apiSecurityHeaders" -> 3
    [] name = "rateLimitByOrigin" -> 4
    [] name \in {"requireAuth", "optionalAuth"} -> 5
    [] name = "requireAdmin" -> 6
    [] name \in {"getProducts", "getProductById", "createProduct",
                 "updateProduct", "deleteProduct"} -> 7
    [] OTHER -> 8

\* The handlers of the given rank the request entered.
EnteredRank(c, n) == \E i \in 1..Len(c.trace) : Rank(c.trace[i]) = n

\* C8: the stages run in the order security headers, origin check, rate
\* limiter, auth middleware, controller, none entered before the ones ahead of
\* it; a request answered 403 by the origin check or 429 by the rate limiter
\* never reaches token verification, a controller or the data client.
C8_StageOrder ==
  \A c \in Handled :
    /\ \A i, j \in 1..Len(c.trace) : i < j => Rank(c.trace[i]) < Rank(c.trace[j])
    /\ EnteredRank(c, 2) => EnteredRank(c, 1)
    /\ EnteredRank(c, 4) => EnteredRank(c, 2)
    /\ EnteredRank(c, 5) => EnteredRank(c, 4)
    /\ EnteredRank(c, 7) => EnteredRank(c, 5)
    /\ c.calls # << >> => EnteredRank(c, 5)
    /\ (\E i \in 1..Len(c.sent) :
          c.sent[i] \in {[by |-> "enhancedCors", status |-> 403],
                         [by |-> "rateLimitByOrigin", status |-> 429]}) =>
         /\ Done(c) /\ Len(c.sent) = 1
         /\ NotPassedOn(c, {"requireAuth", "optionalAuth", "requireAdmin",
                            "getProducts", "getProductById", "createProduct",
                            "updateProduct", "deleteProduct", "authUser"})

\* A request carrying a bearer token was answered 429 by the rate limiter.
C8_Witness ==
  \E c \in Handled :
    SentBy(c, "rateLimitByOrigin", 429) /\ IsBearerHeader(c.authorization)

\* The request reached the PUT or the DELETE controller.
AtItemWrite(c) == Entered(c, "updateProduct") \/ Entered(c, "deleteProduct")

\* The id parameter is a positive number that had no row while the request
\* ran: the table has not given it out (ids are given in rising order), no row
\* has it now, and the request has not itself written to a row that a PUT had
\* moved to it.
NeverAssigned(c) ==
  /\ parseInt(c.id).t = "num" /\ parseInt(c.id).v > 0
  /\ parseInt(c.id).v >= nextId
  /\ parseInt(c.id).v \notin DOMAIN products
  /\ Returned(c, "updateProduct") = {} /\ Returned(c, "deleteProduct") = {}

\* The body carries a price that the update controller refuses.
PriceRefused(c) ==
  /\ c.method = "PUT"
  /\ c.body.price # Undefined
  /\ LET n == ToNumber(c.body.price) IN n.t = "num" /\ n.v <= 0

\* C9 as stated: PUT and DELETE for an id without a row are answered 404, never
\* 200, and the update or delete call is not invoked.
C9_MissingRowAlways404 ==
  \A c \in Handled :
    (AtItemWrite(c) /\ NeverAssigned(c)) =>
      /\ Done(c) => Status(c) = 404
      /\ ~Invoked(c, "updateProduct") /\ ~Invoked(c, "deleteProduct")

\* C9, amended: PUT and DELETE for an id without a row never invoke the update
\* or delete call and are never answered 200; the answer is 404 (also when the
\* existence lookup fails), except for a PUT whose body carries a price of 0 or
\* less (null included), which is answered 400 before the lookup is made.
C9_MissingRow ==
  \A c \in Handled :
    (AtItemWrite(c) /\ NeverAssigned(c)) =>
      /\ ~Invoked(c, "updateProduct") /\ ~Invoked(c, "deleteProduct")
      /\ Done(c) =>
           /\ Len(c.sent) = 1
           /\ IF PriceRefused(c)
                THEN Status(c) = 400 /\ ~Invoked(c, "getProductById")
                ELSE Status(c) = 404 /\ Invoked(c, "getProductById")

\* A DELETE for an id without a row was answered 404 after the lookup answered
\* with no data.
C9_Witness ==
  \E c \in Handled :
    /\ c.method = "DELETE" /\ NeverAssigned(c)
    /\ SentBy(c, "deleteProduct", 404)
    /\ \E ret \in Returned(c, "getProductById") : ret.value = Null

\* Title and author are present and the price is a number greater than 0.
Insertable(body) ==
  /\ NonEmpty(body.title) /\ NonEmpty(body.author)
  /\ body.price.t = "num" /\ body.price.v > 0

\* C10: POST /products invokes the insert only when title and author are
\* present and price is a number greater than 0; every other body is answered
\* 400 and no insert is issued.
C10_CreateValidated ==
  \A c \in Handled :
    Entered(c, "createProduct") =>
      /\ Invoked(c, "createProduct") => Insertable(c.body)
      /\ ~Insertable(c.body) =>
           SentBy(c, "createProduct", 400) /\ ~Invoked(c, "createProduct")

\* The id parameter parses to a positive integer.
ValidIdParam(c) == parseInt(c.id).t = "num" /\ parseInt(c.id).v > 0

\* The backend answered the request's row query (the call did not fail
\* upstream): it returned a row, or the answer of a query that matched none.
LookupAnswered(c) ==
  \E ret \in Returned(c, "getProductById") : ret.error # Err

\* C11: GET /products/:id answers 400 without a data-client call when the id
\* does not parse to a positive integer, answers 404 when no row has that id,
\* and answers 200 only when the backend returned a row.
C11_GetById ==
  \A c \in Handled :
    Entered(c, "getProductById") =>
      /\ ~ValidIdParam(c) =>
           SentBy(c, "getProductById", 400) /\ ~Invoked(c, "getProductById")
      /\ (Done(c) /\ NeverAssigned(c) /\ LookupAnswered(c)) => Status(c) = 404
      /\ Status(c) = 200 =>
           \E ret \in Returned(c, "getProductById") : ret.value.t = "row"

\* The request carries a bearer token that the backend knows.
BearsValidToken(c) ==
  /\ IsBearerHeader(c.authorization)
  /\ TokenUser(Presented(c.authorization).v) # Null

\* C12: GET /api/auth/user answers 200 (the user summary) when the request
\* carries a bearer token that verifies, and 401 when it is unauthenticated.
C12_AuthUser ==
  \A c \in Handled :
    Entered(c, "authUser") =>
      IF BearsValidToken(c) THEN SentBy(c, "authUser", 200)
      ELSE SentBy(c, "authUser", 401)

\* The data-client operations a product controller calls.
ControllerOps ==
  {"getProducts", "getProductById", "createProduct", "updateProduct",
   "deleteProduct"}

\* C13: whenever a data-client call of a product controller fails with an
\* upstream error the request is answered 500, the existence lookup of PUT and
\* DELETE included.
C13_UpstreamError500 ==
  \A c \in Handled :
    (\E i \in 1..Len(c.returns) :
        c.returns[i].op \in ControllerOps /\ c.returns[i].error = Err) =>
      Done(c) /\ Status(c) = 500

\* The calls of supabaseService in flight or returned.
Calls == {svc.calls[k] : k \in 1..NumCalls}

\* C14: no operation of the data client lets an exception escape: a failure
\* (missing configuration, a backend error, a throwing backend call) is
\* returned as a value with the error field set, false from the health probe.
C14_NoEscape ==
  \A call \in Calls :
    /\ ~call.escaped
    /\ (call.pc = "returned" /\ call.cause # "") =>
         IF call.op = "healthCheck" THEN call.value = [t |-> "bool", v |-> FALSE]
         ELSE call.value.t = "result" /\ Truthy(call.value.error)
    /\ (call.pc = "returned" /\ call.cause = "") =>
         IF call.op = "healthCheck" THEN call.value = [t |-> "bool", v |-> TRUE]
         ELSE call.value.t = "result" /\ ~Truthy(call.value.error)

\* An operation returned the failure to construct its client (the
\* configuration is missing) as a value.
C14_Witness ==
  \E call \in Calls :
    /\ call.pc = "returned" /\ call.cause = "config"
    /\ call.op = "verifyToken" /\ Truthy(call.value.error)

\* The call is a health probe or a read without a token.
Tokenless(call) ==
  call.op = "healthCheck" \/ (call.op \in ReadOps /\ ~Truthy(call.token))

\* C19: the client without a token is constructed at most once in a process,
\* and every tokenless read and health probe that got a client works with that
\* one instance, the one the module variable holds.
C19_AnonSingleton ==
  /\ svc.anonMade <= 1
  /\ svc.anonMade = 1 <=> Truthy(svc.supabase)
  /\ Truthy(svc.supabase) => svc.supabase.anon
  /\ \A call \in Calls :
       (Tokenless(call) /\ call.pc # "idle" /\ call.cause # "config") =>
         call.client = svc.supabase /\ call.client.anon

\* A health probe and a tokenless read, both in flight, share the one client,
\* after a client with a token was made.
C19_Witness ==
  \E c1, c2 \in Calls :
    /\ c1.op = "healthCheck" /\ c2.op = "getProducts" /\ Tokenless(c2)
    /\ c1.pc = "await" /\ c2.pc = "await"
    /\ c1.client = c2.client /\ c1.client.t = "client"
    /\ svc.made = 2

\* C20: a client carrying a token is never stored or handed out again: every
\* operation given a token works with a client constructed by that call,
\* carrying exactly that token, whatever other calls are in flight.
C20_FreshTokenClient ==
  /\ Truthy(svc.supabase) => svc.supabase.anon
  /\ \A call \in Calls :
       (~Tokenless(call) /\ call.pc # "idle" /\ call.cause # "config") =>
         call.client = TokenClient(call.madeBefore + 1, call.token)
  /\ \A j, k \in 1..NumCalls :
       (j # k /\ ~Tokenless(svc.calls[j]) /\ Truthy(svc.calls[j].client)) =>
         svc.calls[j].client # svc.calls[k].client

\* Two operations with the tokens of two users are in flight, each on its own
\* client.
C20_Witness ==
  \E c1, c2 \in Calls :
    /\ c1.pc = "await" /\ c2.pc = "await"
    /\ c1.token = Str("tok-a") /\ c2.token = Str("tok-b")
    /\ c1.client.token = Str("tok-a") /\ c2.client.token = Str("tok-b")
    /\ c1.client.id # c2.client.id

\* The position i of s starts the keyword kw, in any letter case, as a whole
\* word: no letter, digit or underscore stands next to it.
KeywordAt(s, kw, i) ==
  /\ i >= 1 /\ i + Len(kw) - 1 <= Len(s)
  /\ \A j \in 1..Len(kw) :
       \/ SubSeq(s, i + j - 1, i + j - 1) = SubSeq(kw, j, j)
       \/ /\ IndexOf(LowerCase, SubSeq(s, i + j - 1, i + j - 1)) > 0
          /\ IndexOf(LowerCase, SubSeq(s, i + j - 1, i + j - 1)) =
               IndexOf(UpperCase, SubSeq(kw, j, j))
  /\ i = 1 \/ ~IsWordChar(SubSeq(s, i - 1, i - 1))
  /\ i + Len(kw) - 1 = Len(s) \/ ~IsWordChar(SubSeq(s, i + Len(kw), i + Len(kw)))

ContainsKeyword(s) ==
  \E kw \in sqlKeywords : \E i \in 1..Len(s) : KeywordAt(s, kw, i)

\* C15: for every search term that after cleaning contains an SQL keyword as a
\* whole word in any letter case, sanitizeSearchTerm returns null, getProducts
\* applies no text filter, and GET /products answers 200 (the unfiltered list)
\* when the backend answers the query.
C15_KeywordTermUnfiltered ==
  (calc.search.t = "str" /\ ContainsKeyword(Cleaned(calc.search.v))) =>
    /\ sanitizeSearchTerm(calc.search.v) = Null
    /\ calc.pc # "arrived" => calc.filter = Null
    /\ (calc.pc = "done" /\ calc.error = Null) => calc.status = 200

\* A term that holds a keyword only once it is cleaned was
\* answered 200 without a filter.
C15_Witness ==
  /\ calc.pc = "done" /\ calc.search = Str("sel--ect")
  /\ ContainsKeyword(Cleaned(calc.search.v))
  /\ calc.filter = Null /\ calc.status = 200

\* The text is a number: an optional sign, then digits with an optional decimal
\* point among them, and nothing else but blanks around it.
NumericText(s) ==
  LET text == Trim(s)
      body == IF StartsWith(text, "-") \/ StartsWith(text, "+")
                THEN Substring(text, 1) ELSE text
      point == IndexOf(body, ".")
      whole == IF point = 0 THEN body ELSE SubSeq(body, 1, point - 1)
      decimals == IF point = 0 THEN "" ELSE Substring(body, point)
  IN AllDigits(whole) /\ AllDigits(decimals) /\ Len(whole) + Len(decimals) > 0

\* The inputs the sanitizer is to answer with null: null, undefined, the empty
\* text, what is no number, what is not finite, and what lies beyond the limit.
ToBeRejected(input) ==
  \/ input \in {Null, Undefined, Str("")}
  \/ input.t = "inf"
  \/ input.t = "str" /\ ~NumericText(input.v)
  \/ LET num == parseFloat(input) IN num.t = "dec" /\ OutOfRange(num)

\* The distance of two finite numbers of one sign is at most 5 thousandths.
RoundedFrom(result, num) ==
  LET a == result.whole - num.whole
      d == a * 1000 + result.milli - num.milli
  IN /\ a \in {0, 1} /\ d >= -5 /\ d <= 5
     /\ result.neg = (num.neg /\ (result.whole # 0 \/ result.milli # 0))

\* C16: sanitizeNumber returns null for every input that is null, undefined,
\* empty, non-numeric, non-finite or beyond +-999,999,999; for every other
\* input it returns the parsed value rounded to 2 decimal places, inside the
\* limits.
C16_SanitizeNumber ==
  calc.pc = "done" =>
    IF ToBeRejected(calc.input) THEN calc.result = Null
    ELSE /\ calc.result.t = "dec"
         /\ calc.result.milli % 10 = 0
         /\ ~OutOfRange(calc.result)
         /\ RoundedFrom(calc.result, parseFloat(calc.input))


\* The runs of _doInitialize so far, and those with the given outcome.
Runs == 1..Len(page.service.attempts)

RunsAt(pc) == {a \in Runs : page.service.attempts[a].pc = pc}

LastRunFailed ==
  Runs # {} /\ page.service.attempts[Len(page.service.attempts)].pc = "rejected"

\* C18: when a run fails, every caller that waited on it gets the failure, the
\* service is left with initPromise = null, isInitialized = false and no
\* client, and the next initSupabase() call starts a new run.
C18_FailureRecovery ==
  /\ [](/\ \A p \in 1..NumCallers :
             (page.callers[p].on \in RunsAt("rejected")) =>
               page.callers[p].pc \in {"waiting", "failed"}
        /\ \A p \in 1..NumCallers :
             page.callers[p].pc = "failed" =>
               page.callers[p].on \in RunsAt("rejected")
        /\ LastRunFailed =>
             /\ page.service.initPromise = 0
             /\ ~page.service.isInitialized
             /\ page.service.client = Null)
  /\ [][\A p \in 1..NumCallers :
          (LastRunFailed /\ page.callers[p].pc = "idle"
             /\ page'.callers[p].pc # "idle") =>
            /\ Len(page'.service.attempts) = Len(page.service.attempts) + 1
            /\ page'.service.attempts[Len(page'.service.attempts)].pc = "fetch"
            /\ page'.callers[p] = [pc |-> "waiting",
                                   on |-> Len(page'.service.attempts),
                                   value |-> Null, after |-> FALSE]]_vars

\* A caller of a failed run got the failure, and the run started by the next
\* call succeeded and gave its caller the client.
C18_Witness ==
  /\ Len(page.service.attempts) = 2
  /\ page.service.attempts[1].pc = "rejected"
  /\ page.service.attempts[2].pc = "resolved"
  /\ \E p, q \in 1..NumCallers :
       /\ p # q
       /\ page.callers[p].pc = "failed" /\ page.callers[p].on = 1
       /\ page.callers[q].pc = "got" /\ page.callers[q].on = 2


\* The identifiers the limiter has passed requests of.
Passers == DOMAIN calc.passed

\* The requests of identifier k passed on that arrived in the interval of
\* length windowMs that starts at s.
PassedIn(k, s) ==
  {i \in 1..Len(calc.passed[k]) :
     calc.passed[k][i].at >= s /\ calc.passed[k][i].at < s + windowMs}

\* The requests of identifier k passed on in the window opened at w.
PassedInWindow(k, w) ==
  {i \in 1..Len(calc.passed[k]) : calc.passed[k][i].window = w}

\* The statement of C21 as written: every interval of length windowMs, wherever
\* it starts, holds at most maxRequests passed requests of an identifier.
C21_SlidingWindow ==
  \A k \in Passers : \A s \in 0..MaxTime :
    Cardinality(PassedIn(k, s)) <= maxRequests

\* C21: the limiter is a fixed-window limiter: of the requests of an identifier
\* counted in one window (from the arrival that opened it to its reset time) at
\* most maxRequests are passed on, and an interval of length windowMs, which
\* can lie across two windows, holds at most 2 * maxRequests passed requests.
C21_FixedWindow ==
  \A k \in Passers :
    /\ \A i \in 1..Len(calc.passed[k]) :
         /\ calc.passed[k][i].window <= calc.passed[k][i].at
         /\ calc.passed[k][i].at <= calc.passed[k][i].window + windowMs
    /\ \A w \in 0..MaxTime : Cardinality(PassedInWindow(k, w)) <= maxRequests
    /\ \A s \in 0..MaxTime : Cardinality(PassedIn(k, s)) <= 2 * maxRequests

\* An identifier had a request passed at the end of a full window and
\* maxRequests more in the next window, all within one interval of length
\* windowMs.
C21_Witness ==
  \E k \in Passers : \E s \in 0..MaxTime :
    /\ Cardinality(PassedIn(k, s)) > maxRequests
    /\ \E w \in 0..MaxTime :
         /\ Cardinality(PassedInWindow(k, w)) = maxRequests
         /\ \E i \in PassedIn(k, s) : calc.passed[k][i].window < w
         /\ \A i \in PassedInWindow(k, w) : i \in PassedIn(k, s)


\* C23: a request answered 429 leaves the rate-limit map unchanged, a request
\* that reaches the limiter changes no record but its own identifier's, and
\* no later turn of a request changes the map.
C23_RateLimitFrame ==
  [][IF \E r \in 1..NumReqs : LimiterArrival(r)
       THEN \A r \in 1..NumReqs :
              LimiterArrival(r) =>
                LET c == reqs'[r]
                    k == ClientKey(c)
                IN /\ DOMAIN requestCounts' \subseteq DOMAIN requestCounts \cup {k}
                   /\ \A j \in DOMAIN requestCounts \ {k} :
                        /\ j \in DOMAIN requestCounts'
                        /\ requestCounts'[j] = requestCounts[j]
                   /\ SentBy(c, "rateLimitByOrigin", 429) =>
                        requestCounts' = requestCounts
       ELSE requestCounts' = requestCounts]_vars

\* A request was answered 429 while the map holds the full record of its
\* identifier and the record of another identifier.
C23_Witness ==
  \E c \in Handled :
    /\ SentBy(c, "rateLimitByOrigin", 429)
    /\ requestCounts[ClientKey(c)].count = maxRequests
    /\ \E j \in DOMAIN requestCounts : j # ClientKey(c)

\* C30: every record of the rate-limit map has 1 <= count <= maxRequests, and
\* its reset time is the arrival time of the request that opened the window
\* plus windowMs, whatever requests were counted in the window since.
C30_RecordInvariant ==
  /\ DOMAIN requestCounts = Passers
  /\ \A k \in DOMAIN requestCounts :
       /\ 1 <= requestCounts[k].count
       /\ requestCounts[k].count <= maxRequests
       /\ requestCounts[k].resetTime =
            calc.passed[k][Len(calc.passed[k])].window + windowMs

\* A full record whose last counted request arrived after the one that opened
\* the window, and a later request of the identifier answered 429.
C30_Witness ==
  \E k \in DOMAIN requestCounts :
    LET last == calc.passed[k][Len(calc.passed[k])]
    IN /\ requestCounts[k].count = maxRequests
       /\ last.at > last.window
       /\ Identifier(probe) = k
       /\ probe.sent = <<[by |-> "rateLimitByOrigin", status |-> 429]>>
       /\ now > last.at


\* C22: a product's id is immutable once assigned: whatever POST, PUT and
\* DELETE requests were handled, every stored product has the id it was
\* created with.
C22_IdImmutable ==
  \A i \in DOMAIN products : products[i].id = products[i].born


\* C24: there are no retries. Within one request token verification is invoked
\* at most once and each data-client operation at most once; a request whose
\* verification failed never becomes authenticated: under requireAuth it ends
\* with 401 and no further call, under optionalAuth it goes on without user
\* and token.
C24_NoRetries ==
  \A c \in Handled :
    /\ \A i, j \in 1..Len(c.calls) : c.calls[i].op = c.calls[j].op => i = j
    /\ VerifyFailed(c) =>
         /\ ~Verified(c)
         /\ c.user = Undefined /\ c.accessToken = Undefined
         /\ Entered(c, "requireAuth") =>
              /\ SentBy(c, "requireAuth", 401)
              /\ Len(c.calls) = 1
              /\ ~Entered(c, "requireAdmin")
         /\ Entered(c, "optionalAuth") =>
              /\ CalledNext(c, "optionalAuth")
              /\ \A i \in 2..Len(c.calls) : c.calls[i].token = Undefined

\* A write whose token failed verification was answered 401 after the one
\* verification call, and nothing else was called.
C24_Witness ==
  \E c \in Handled :
    /\ Entered(c, "requireAuth") /\ VerifyFailed(c)
    /\ SentBy(c, "requireAuth", 401)
    /\ c.calls = <<[op |-> "verifyToken", token |-> Str("tok-expired")]>>


\* The text holds none of the characters ; ' " \ and none of the comment
\* markers.
FreeOfMarkers(s) ==
  /\ RemoveChars(s, ";'\"\\") = s
  /\ \A pat \in {"--", "/*", "*/"} : RemoveAll(s, pat) = s

\* C25: a non-null result of sanitizeSearchTerm holds none of the characters
\* semicolon, single quote, double quote and backslash and none of the markers
\* '--', '/*' and '*/', and the sanitizer returns it unchanged.
C25_SanitizedClean ==
  (calc.pc # "arrived" /\ Truthy(calc.filter)) =>
    /\ FreeOfMarkers(calc.filter.v)
    /\ sanitizeSearchTerm(calc.filter.v) = calc.filter


Middlewares ==
  {"securityHeaders", "enhancedCors", "apiSecurityHeaders", "rateLimitByOrigin",
   "requireAuth", "optionalAuth", "requireAdmin"}

\* The handlers a route ends in.
RouteHandlers ==
  {"getProducts", "getProductById", "createProduct", "updateProduct",
   "deleteProduct", "authUser"}

\* How often the handler called next(), and how many responses it sent.
NextsBy(c, name) == Cardinality({i \in 1..Len(c.nexts) : c.nexts[i] = name})

ResponsesBy(c, name) == Cardinality({i \in 1..Len(c.sent) : c.sent[i].by = name})

\* The handler is at an await.
Suspended(c, name) == c.pc \notin {"idle", "run", "done"} /\ Handler(c) = name

\* C27: every request gets exactly one response. A request at rest waits on a
\* backend call or has its one response; each middleware it entered has, once
\* past its await, either sent a response or called next(), once and not both;
\* each route handler never calls next() and has sent exactly one response when
\* the request is done, also after a data-client call that threw.
C27_OneResponse ==
  \A c \in Handled :
    /\ c.pc # "run"
    /\ Len(c.sent) = (IF Done(c) THEN 1 ELSE 0)
    /\ \A m \in Middlewares :
         Entered(c, m) =>
           NextsBy(c, m) + ResponsesBy(c, m) = (IF Suspended(c, m) THEN 0 ELSE 1)
    /\ \A h \in RouteHandlers :
         Entered(c, h) =>
           /\ NextsBy(c, h) = 0
           /\ ResponsesBy(c, h) = (IF Suspended(c, h) THEN 0 ELSE 1)


\* C28: no product query or write is executed with a bearer token that did not
\* pass verification in the same request: a controller's data-client call
\* carries the request's verified token or none, and on the GET routes a
\* request whose token is absent, malformed or rejected has its query run
\* without a token (on the shared unauthenticated client).
C28_VerifiedTokensOnly ==
  \A c \in Handled :
    \A i \in 1..Len(c.calls) :
      c.calls[i].op \in ControllerOps =>
        /\ c.calls[i].token # Undefined =>
             /\ IsBearerHeader(c.authorization)
             /\ Verified(c)
             /\ c.calls[i].token = Presented(c.authorization)
        /\ (IsRead(c) /\ ~Verified(c)) => c.calls[i].token = Undefined

\* A read whose token verification rejected had its query run without a
\* token.
C28_Witness ==
  \E c \in Handled :
    /\ IsRead(c) /\ IsBearerHeader(c.authorization) /\ VerifyFailed(c)
    /\ Len(c.calls) = 2
    /\ c.calls[2].op \in {"getProducts", "getProductById"}
    /\ c.calls[2].token = Undefined


\* C29: of two DELETE requests for the same id at most one is answered 200
\* 'Product deleted successfully' (the id names one row, which is deleted
\* once); the other finds no row.
C29_DeleteOnce ==
  \A r1, r2 \in 1..NumReqs :
    (/\ r1 # r2
     /\ reqs[r1].method = "DELETE" /\ reqs[r2].method = "DELETE"
     /\ parseInt(reqs[r1].id) = parseInt(reqs[r2].id)
     /\ Status(reqs[r1]) = 200) =>
      Status(reqs[r2]) # 200


\* The active subscriptions an instance registered.
ActiveOf(owner) ==
  {i \in 1..Len(page.subs) : page.subs[i].owner = owner /\ page.subs[i].active}

\* The instance was mounted and has unmounted.
Unmounted(h) == h.pc # "new" /\ ~h.mounted

\* C26: every auth-state subscription a useAuth or useAPI instance registered
\* is unsubscribed once the instance has unmounted, an instance holds at most
\* one active subscription at a time, and no state setter runs after the
\* unmount.
C26_HookCleanup ==
  /\ Unmounted(page.auth) => ActiveOf("auth") = {}
  /\ Unmounted(page.api) => ActiveOf("api") = {}
  /\ Cardinality(ActiveOf("auth")) <= 1
  /\ Cardinality(ActiveOf("api")) <= 1
  /\ ~page.auth.late /\ ~page.api.late

====
